---- MODULE Spec2Model ----
(***************************************************************************)
(* Guardrail orchestration pipeline of the BewerberAI optimizer:           *)
(* services/geminiService.ts (stage orchestration, retry, correction       *)
(* cycle) and services/analysisSchemaService.ts (PII redaction and the     *)
(* metrics guard).                                                         *)
(*                                                                         *)
(* Text is a sequence of tokens.  A token stands for a maximal chunk of    *)
(* the string that the regular expressions of the source treat as a unit;  *)
(* consecutive tokens are separated by text that no regular expression     *)
(* of the source matches across, except that a label token is directly     *)
(* followed by the token after it (label, separator, value).               *)
(*   k = "str"   a literal chunk s (a word, an email, a phone number...)   *)
(*   k = "num"   a number written as s                                     *)
(*   k = "label" a birth-date label (s = "BIRTH_DATE": "born", "dob") or   *)
(*               an id label (s = "PERSONAL_ID": "passport number:")      *)
(*   k = "ph"    the placeholder [PII_<s>_<n>]                             *)
(***************************************************************************)
EXTENDS Integers, Sequences, FiniteSets, TLC

Str(s) == [k |-> "str", s |-> s, n |-> 0]

Num(s) == [k |-> "num", s |-> s, n |-> 0]

(* a line that begins with the digits s, a full stop and white space *)
ListNum(s) == [k |-> "list", s |-> s, n |-> 0]

Label(t) == [k |-> "label", s |-> t, n |-> 0]

Ph(t, i) == [k |-> "ph", s |-> t, n |-> i]

(* the elements of a sequence *)
Range(seq) == {seq[i] : i \in 1..Len(seq)}

PiiType == {"EMAIL", "PHONE", "STREET_ADDRESS", "BIRTH_DATE", "PERSONAL_ID"}

(* The literal chunks of the model. *)
EmailA == "jo@x.io"

EmailB == "JO@X.io"

EmailZ == "zed@y.io"

PhoneA == "+1 415 5551212"

StreetA == "221 Baker Street"

DateA == "01/12/1990"

IdA == "X1234567"

(* a date and an id of digits and hyphens: PHONE_CANDIDATE_REGEX matches
   them too *)
DateB == "1990-12-01"

IdB == "1234-5678-9012"

Word == "improved"

(* EMAIL_REGEX *)
MatchesEmail(s) == s \in {EmailA, EmailB, EmailZ}

(* PHONE_CANDIDATE_REGEX: a digit, seven or more of [\d()\s.-], a digit *)
MatchesPhoneCandidate(s) == s \in {PhoneA, DateB, IdB}

(* the number of digits of a chunk, value.replace(/\D/g, "").length *)
DigitCount(s) ==
  CASE s = PhoneA -> 11
    [] s = StreetA -> 3
    [] s = DateA -> 8
    [] s = IdA -> 7
    [] s = DateB -> 8
    [] s = IdB -> 12
    [] OTHER -> 0

(* /^\d{4}\s*[-/]\s*\d{4}$/ : a bare 4-digit/4-digit range *)
IsYearRange(s) == FALSE

isLikelyPhoneNumber(s) ==
  IF DigitCount(s) < 8 \/ DigitCount(s) > 15 THEN FALSE
  ELSE IF IsYearRange(s) THEN FALSE
  ELSE TRUE

(* STREET_ADDRESS_REGEX *)
MatchesStreet(s) == s \in {StreetA}

(* the value group of BIRTH_DATE_LABELED_REGEX *)
MatchesDateValue(s) == s \in {DateA, DateB}

(* the value group of PERSONAL_ID_LABELED_REGEX: [A-Za-z0-9-]{4,} at the
   start of the chunk *)
MatchesIdValue(s) == s \in {IdA, IdB, Word}

normalizeForKey(s) ==
  CASE s = EmailB -> "jo@x.io"
    [] s = StreetA -> "221 baker street"
    [] OTHER -> s

normalizePiiKey(type, s) ==
  IF type = "PHONE"
  THEN (CASE s = PhoneA -> "14155551212"
          [] s = DateB -> "19901201"
          [] s = IdB -> "123456789012"
          [] OTHER -> "")
  ELSE IF type = "EMAIL" THEN normalizeForKey(s)
  ELSE IF type = "PERSONAL_ID"
  THEN (CASE s = Word -> "IMPROVED" [] s = IdB -> "123456789012" [] OTHER -> s)
  ELSE normalizeForKey(s)

(***************************************************************************)
(* createRedactor: counters, keyToPlaceholder and placeholderToOriginal.   *)
(* The two maps are kept as sequences in insertion order.                  *)
(***************************************************************************)
createRedactor ==
  [counters |-> [t \in PiiType |-> 0],
   keyToPlaceholder |-> << >>,
   placeholderToOriginal |-> << >>]

LookupKey(map, key) ==
  IF \E i \in 1..Len(map) : map[i].key = key
  THEN {map[CHOOSE i \in 1..Len(map) : map[i].key = key].placeholder}
  ELSE {}

(* a slip: the key map is not consulted *)
register_NoReuse(red, value, type) ==
  LET c == red.counters[type] + 1
      placeholder == Ph(type, c)
  IN [red |-> [counters |-> [red.counters EXCEPT ![type] = c],
               keyToPlaceholder |-> red.keyToPlaceholder,
               placeholderToOriginal |->
                 Append(red.placeholderToOriginal,
                        [placeholder |-> placeholder,
                         original |-> value, type |-> type])],
      placeholder |-> placeholder]

(* register(value, type): the redactor after the call and the placeholder
   it returns *)
register(red, value, type) ==
  LET normalized == normalizePiiKey(type, value)
      key == <<type, normalized>>
      existing == LookupKey(red.keyToPlaceholder, key)
  IN IF existing # {}
     THEN [red |-> red, placeholder |-> CHOOSE p \in existing : TRUE]
     ELSE LET c == red.counters[type] + 1
              placeholder == Ph(type, c)
          IN [red |-> [counters |-> [red.counters EXCEPT ![type] = c],
                       keyToPlaceholder |->
                         Append(red.keyToPlaceholder,
                                [key |-> key, placeholder |-> placeholder]),
                       placeholderToOriginal |->
                         Append(red.placeholderToOriginal,
                                [placeholder |-> placeholder,
                                 original |-> value, type |-> type])],
              placeholder |-> placeholder]

entries(red) == red.placeholderToOriginal

(* Whether pass `type` of applyPiiRedaction / detectPii matches the token
   at position i of text. *)
PassMatches(type, text, i) ==
  LET tok == text[i] IN
  CASE type = "EMAIL" -> tok.k = "str" /\ MatchesEmail(tok.s)
    [] type = "BIRTH_DATE" ->
         /\ i > 1 /\ text[i - 1] = Label("BIRTH_DATE")
         /\ tok.k = "str" /\ MatchesDateValue(tok.s)
    [] type = "PERSONAL_ID" ->
         /\ i > 1 /\ text[i - 1] = Label("PERSONAL_ID")
         /\ tok.k = "str" /\ MatchesIdValue(tok.s)
    [] type = "PHONE" ->
         tok.k = "str" /\ MatchesPhoneCandidate(tok.s) /\ isLikelyPhoneNumber(tok.s)
    [] type = "STREET_ADDRESS" -> tok.k = "str" /\ MatchesStreet(tok.s)

(* One text.replace(REGEX, ...) pass of applyPiiRedaction, from position i *)
RECURSIVE RedactPass(_, _, _, _)
RedactPass(type, text, red, i) ==
  IF i > Len(text) THEN [text |-> text, red |-> red]
  ELSE IF PassMatches(type, text, i)
       THEN LET r == register(red, text[i].s, type)
            IN RedactPass(type, [text EXCEPT ![i] = r.placeholder], r.red, i + 1)
       ELSE RedactPass(type, text, red, i + 1)

RedactionOrder == <<"EMAIL", "BIRTH_DATE", "PERSONAL_ID", "PHONE", "STREET_ADDRESS">>

RECURSIVE RedactPasses(_, _, _)
RedactPasses(text, red, p) ==
  IF p > Len(RedactionOrder) THEN [text |-> text, red |-> red]
  ELSE LET r == RedactPass(RedactionOrder[p], text, red, 1)
       IN RedactPasses(r.text, r.red, p + 1)

applyPiiRedaction(text, red) == RedactPasses(text, red, 1)

TEXT_FIELDS ==
  <<"jobDescription", "companyInfo", "resumeContent", "coverLetterContent",
    "portfolioLinks", "additionalContext">>

METRIC_FIELDS ==
  <<"projectImpact", "latencyReduction", "costSavings", "usersServed",
    "uptime", "otherMetrics">>

(* for (const field of TEXT_FIELDS) sanitizedInput[field] = applyPiiRedaction(...) *)
RECURSIVE RedactTextFields(_, _, _)
RedactTextFields(inp, red, f) ==
  IF f > Len(TEXT_FIELDS) THEN [input |-> inp, red |-> red]
  ELSE LET r == applyPiiRedaction(inp[TEXT_FIELDS[f]], red)
       IN RedactTextFields([inp EXCEPT ![TEXT_FIELDS[f]] = r.text], r.red, f + 1)

(* for (const field of METRIC_FIELDS): an unset or empty entry is skipped.
   An unset entry of the vault is the empty text. *)
RECURSIVE RedactMetricFields(_, _, _)
RedactMetricFields(inp, red, f) ==
  IF f > Len(METRIC_FIELDS) THEN [input |-> inp, red |-> red]
  ELSE LET value == inp.metricsVault[METRIC_FIELDS[f]] IN
       IF Len(value) = 0 THEN RedactMetricFields(inp, red, f + 1)
       ELSE LET r == applyPiiRedaction(value, red)
            IN RedactMetricFields(
                 [inp EXCEPT !.metricsVault[METRIC_FIELDS[f]] = r.text],
                 r.red, f + 1)

prepareApplicationForGemini(inp) ==
  IF ~inp.privacyMode
  THEN [sanitizedInput |-> inp, redactionEntries |-> << >>]
  ELSE LET t == RedactTextFields(inp, createRedactor, 1)
           m == RedactMetricFields(t.input, t.red, 1)
       IN [sanitizedInput |-> m.input, redactionEntries |-> entries(m.red)]

(* restored.split(entry.placeholder).join(entry.original) *)
ReplacePlaceholder(text, entry) ==
  [i \in 1..Len(text) |->
     IF text[i] = entry.placeholder THEN Str(entry.original) ELSE text[i]]

RECURSIVE ReinsertFrom(_, _, _)
ReinsertFrom(text, ents, e) ==
  IF e > Len(ents) THEN text
  ELSE ReinsertFrom(ReplacePlaceholder(text, ents[e]), ents, e + 1)

(* A nullable string is [null |-> TRUE/FALSE, text |-> tokens]. *)
Null == [null |-> TRUE, text |-> << >>]

Text(t) == [null |-> FALSE, text |-> t]

OrEmpty(v) == IF v.null THEN << >> ELSE v.text

reinsertRedactedPii(v, ents) ==
  IF v.null THEN Null ELSE Text(ReinsertFrom(v.text, ents, 1))

(* the matches of one detector of detectPii, in text order *)
RECURSIVE DetectPass(_, _, _)
DetectPass(type, text, i) ==
  IF i > Len(text) THEN << >>
  ELSE (IF PassMatches(type, text, i)
        THEN <<[type |-> type, value |-> text[i].s]>> ELSE << >>)
       \o DetectPass(type, text, i + 1)

DetectionOrder == <<"EMAIL", "PHONE", "STREET_ADDRESS", "BIRTH_DATE", "PERSONAL_ID">>

RECURSIVE DetectPasses(_, _)
DetectPasses(text, p) ==
  IF p > Len(DetectionOrder) THEN << >>
  ELSE DetectPass(DetectionOrder[p], text, 1) \o DetectPasses(text, p + 1)

detectPii(text) == DetectPasses(text, 1)

AllowedPiiKeys(ents) ==
  {<<ents[i].type, normalizePiiKey(ents[i].type, ents[i].original)>> : i \in 1..Len(ents)}

(* counts per type of the detections whose key is not allowed, in the order
   in which the types are first counted *)
RECURSIVE IssuesFrom(_, _, _)
IssuesFrom(dets, allowed, p) ==
  IF p > Len(DetectionOrder) THEN << >>
  ELSE LET type == DetectionOrder[p]
           bad == {i \in 1..Len(dets) :
                     /\ dets[i].type = type
                     /\ <<type, normalizePiiKey(type, dets[i].value)>> \notin allowed}
       IN (IF bad = {} THEN << >>
           ELSE <<[type |-> type, count |-> Cardinality(bad)]>>)
          \o IssuesFrom(dets, allowed, p + 1)

findUnauthorizedPii(text, ents) ==
  IssuesFrom(detectPii(text), AllowedPiiKeys(ents), 1)

(* order-preserving removal of duplicates: Array.from(new Set(list)) *)
RECURSIVE Unique(_)
Unique(list) ==
  IF list = << >> THEN << >>
  ELSE LET front == Unique(SubSeq(list, 1, Len(list) - 1))
           last == list[Len(list)]
       IN IF \E i \in 1..Len(front) : front[i] = last THEN front
          ELSE Append(front, last)

(* PII_PLACEHOLDER_REGEX matches exactly the placeholder tokens *)
findUnresolvedPiiPlaceholders(text, ents) ==
  LET known == {ents[i].placeholder : i \in 1..Len(ents)}
  IN Unique(SelectSeq(text, LAMBDA tok : tok.k = "ph" /\ tok \notin known))

(***************************************************************************)
(* Metrics guard.                                                          *)
(***************************************************************************)
(* normalizeNumberToken: commas removed, parseFloat, toString *)
normalizeNumberToken(s) ==
  CASE s = "18" -> 18
    [] s = "18.0" -> 18
    [] s = "42" -> 42
    [] s = "1" -> 1
    [] s = "120" -> 120
    [] s = "2,300" -> 2300
    [] s = "2300" -> 2300
    [] OTHER -> 0

(* the matches of NUMBER_TOKEN_REGEX inside one token, normalized *)
NumberTokensOf(tok) ==
  CASE tok.k \in {"num", "list"} -> <<normalizeNumberToken(tok.s)>>
    [] tok.k = "ph" -> <<tok.n>>
    [] tok.k = "str" ->
         (CASE tok.s = PhoneA -> <<1, 415, 5551212>>
            [] tok.s = StreetA -> <<221>>
            [] tok.s = DateA -> <<1, 12, 1990>>
            [] tok.s = IdA -> <<1234567>>
            [] tok.s = DateB -> <<1990, 12, 1>>
            [] tok.s = IdB -> <<1234, 5678, 9012>>
            [] OTHER -> << >>)
    [] OTHER -> << >>

RECURSIVE AllNumberTokens(_)
AllNumberTokens(text) ==
  IF text = << >> THEN << >>
  ELSE NumberTokensOf(Head(text)) \o AllNumberTokens(Tail(text))

(* value.replace(/^\s*\d+\.\s+/gm, ""): the list numbers at the start of a
   line are removed *)
StripListNumbers(text) == SelectSeq(text, LAMBDA tok : tok.k # "list")

(* a slip: a number is reported as often as it occurs *)
extractNormalizedNumberTokens_Repeated(text) ==
  AllNumberTokens(StripListNumbers(text))

extractNormalizedNumberTokens(text) ==
  Unique(AllNumberTokens(StripListNumbers(text)))

RECURSIVE JoinVault(_, _)
JoinVault(vault, f) ==
  IF f > Len(METRIC_FIELDS) THEN << >>
  ELSE vault[METRIC_FIELDS[f]] \o JoinVault(vault, f + 1)

getAllowedMetricNumbers(vault) == extractNormalizedNumberTokens(JoinVault(vault, 1))

findUnauthorizedNumbersInText(text, vault) ==
  LET allowed == getAllowedMetricNumbers(vault)
  IN SelectSeq(extractNormalizedNumberTokens(text),
               LAMBDA x : ~(\E i \in 1..Len(allowed) : allowed[i] = x))

findUnauthorizedNumbersForRewrite(rewrite, vault) ==
  findUnauthorizedNumbersInText(
    OrEmpty(rewrite.optimizedResume) \o OrEmpty(rewrite.optimizedCoverLetter), vault)

(***************************************************************************)
(* Tier selection and generator client.                                    *)
(***************************************************************************)
SIMPLE_DOC_CHAR_LIMIT == 3000

COMPLEX_DOC_CHAR_LIMIT == 9000

COMPLEX_TOTAL_CHAR_LIMIT == 18000

APPROX_CHARS_PER_TOKEN == 4

COMPLEX_TOKEN_LIMIT == 4500

FAST_DOC_CHAR_LIMIT == 4500

FAST_TOKEN_LIMIT == 3200

MAX_RETRY_ATTEMPTS == 3

BASE_BACKOFF_MS == 400

TRANSIENT_STATUS_CODES == {408, 409, 425, 429, 500, 502, 503, 504}

Para == "paragraph of 3000 characters"

Deep == "deep"

(* a stretch of n characters of plain text *)
Filler == "plain text"

Chars(n) == [k |-> "str", s |-> Filler, n |-> n]

(* the length in characters of a token, and of a text whose tokens are
   separated by one character *)
CharLen(tok) ==
  CASE tok.k = "ph" -> 8 + (CASE tok.s = "EMAIL" -> 5 [] tok.s = "PHONE" -> 5
                              [] tok.s = "STREET_ADDRESS" -> 14
                              [] tok.s = "BIRTH_DATE" -> 10 [] OTHER -> 11)
    [] tok.k = "num" -> 2
    [] tok.k = "label" -> 8
    [] tok.s = Para -> 3000
    [] tok.s = Filler -> tok.n
    [] tok.s = PhoneA -> 14
    [] tok.s = StreetA -> 16
    [] tok.s = DateA -> 10
    [] OTHER -> 8

RECURSIVE TextLen(_)
TextLen(text) ==
  IF text = << >> THEN 0
  ELSE CharLen(Head(text)) + (IF Len(text) > 1 THEN 1 ELSE 0) + TextLen(Tail(text))

(* Math.ceil(chars / APPROX_CHARS_PER_TOKEN) *)
estimateTokensFromChars(chars) ==
  (chars + APPROX_CHARS_PER_TOKEN - 1) \div APPROX_CHARS_PER_TOKEN

(* DEEP_ANALYSIS_REGEX.test(text) *)
MentionsDeep(text) == \E i \in 1..Len(text) : text[i] = Str(Deep)

(* the set entries of the vault joined with " " *)
MetricsChars(vault) ==
  LET set == {f \in 1..Len(METRIC_FIELDS) : Len(vault[METRIC_FIELDS[f]]) > 0}
      RECURSIVE Sum(_)
      Sum(f) == IF f > Len(METRIC_FIELDS) THEN 0
                ELSE TextLen(vault[METRIC_FIELDS[f]]) + Sum(f + 1)
  IN Sum(1) + (IF set = {} THEN 0 ELSE Cardinality(set) - 1)

(* a slip: a document at a limit counts as over it *)
TierOf_AtLimit(jdChars, resumeChars, totalChars, analysisMode, deepRequestedByText) ==
  IF \/ analysisMode = "deep" \/ deepRequestedByText
     \/ jdChars >= COMPLEX_DOC_CHAR_LIMIT \/ resumeChars >= COMPLEX_DOC_CHAR_LIMIT
     \/ totalChars >= COMPLEX_TOTAL_CHAR_LIMIT
  THEN "COMPLEX"
  ELSE IF jdChars < SIMPLE_DOC_CHAR_LIMIT /\ resumeChars < SIMPLE_DOC_CHAR_LIMIT
       THEN "SIMPLE" ELSE "MEDIUM"

(* the decision of selectTier on the measured lengths *)
TierOf(jdChars, resumeChars, totalChars, analysisMode, deepRequestedByText) ==
  LET estimatedTokens == estimateTokensFromChars(totalChars)
      isSimpleCandidate ==
        jdChars < SIMPLE_DOC_CHAR_LIMIT /\ resumeChars < SIMPLE_DOC_CHAR_LIMIT
      isFastSimpleCandidate ==
        /\ jdChars < FAST_DOC_CHAR_LIMIT
        /\ resumeChars < FAST_DOC_CHAR_LIMIT
        /\ estimatedTokens < FAST_TOKEN_LIMIT
      isComplexByLength ==
        \/ jdChars > COMPLEX_DOC_CHAR_LIMIT
        \/ resumeChars > COMPLEX_DOC_CHAR_LIMIT
        \/ totalChars > COMPLEX_TOTAL_CHAR_LIMIT
        \/ estimatedTokens > COMPLEX_TOKEN_LIMIT
  IN IF analysisMode = "deep" \/ deepRequestedByText \/ isComplexByLength
     THEN "COMPLEX"
     ELSE IF analysisMode = "fast"
          THEN (IF isFastSimpleCandidate THEN "SIMPLE" ELSE "MEDIUM")
          ELSE (IF isSimpleCandidate THEN "SIMPLE" ELSE "MEDIUM")

selectTier(inp) ==
  LET jdChars == TextLen(inp.jobDescription)
      resumeChars == TextLen(inp.resumeContent)
      totalChars == jdChars + resumeChars + TextLen(inp.coverLetterContent)
                    + TextLen(inp.companyInfo) + TextLen(inp.additionalContext)
                    + MetricsChars(inp.metricsVault)
  IN TierOf(jdChars, resumeChars, totalChars, inp.analysisMode,
            MentionsDeep(inp.additionalContext) \/ MentionsDeep(inp.companyInfo)
              \/ MentionsDeep(inp.jobDescription))

TIER_CONFIG(tier) ==
  [tier |-> tier,
   model |-> CASE tier = "SIMPLE" -> "gemini-2.5-flash"
               [] tier = "MEDIUM" -> "gemini-2.5-pro"
               [] OTHER -> "gemini-3-pro-preview"]

getTierConfig(tier) == TIER_CONFIG(tier)

tierFromMode(analysisMode) ==
  IF analysisMode = "deep" THEN "COMPLEX"
  ELSE IF analysisMode = "fast" THEN "SIMPLE"
  ELSE "MEDIUM"

(* value?.trim(): "" stands for an unset key, " " for a blank one *)
Trim(key) == IF key = " " THEN "" ELSE key

(* a slip: the client is built without looking at the key *)
getGeminiClient_NoGuard(options, envKey) ==
  IF options.modelMode = "mock" THEN "mock" ELSE "real"

(* getGeminiClient: "mock", "real", or "throws" when the key is missing *)
getGeminiClient(options, envKey) ==
  IF options.modelMode = "mock" THEN "mock"
  ELSE LET apiKey == IF Trim(options.apiKey) # "" THEN Trim(options.apiKey)
                     ELSE Trim(envKey)
       IN IF apiKey = "" THEN "throws" ELSE "real"

(* An error thrown by the generator: status and code are 0 when they are
   not numbers; message is a key of TransientMessage. *)
TransientMessage(message) == message \in {"timeout", "limit of 5000 tokens"}

(* a slip: the code field is consulted although status is a number *)
isTransientError_CodeFirst(error) ==
  LET status == IF error.code # 0 THEN error.code ELSE error.status
  IN IF status # 0 /\ status \in TRANSIENT_STATUS_CODES THEN TRUE
     ELSE TransientMessage(error.message)

isTransientError(error) ==
  LET status == IF error.status # 0 THEN error.status
                ELSE IF error.code # 0 THEN error.code
                ELSE 0
  IN IF status # 0 /\ status \in TRANSIENT_STATUS_CODES THEN TRUE
     ELSE TransientMessage(error.message)

(* a slip: the last attempt is retried as well *)
shouldRetry_OffByOne(n, error) ==
  n <= MAX_RETRY_ATTEMPTS /\ isTransientError(error)

(* a slip: a transient error is retried whatever the attempt *)
shouldRetry_Always(n, error) == isTransientError(error)

(* withRetry: shouldRetry for the error caught in attempt n *)
shouldRetry(n, error) == n < MAX_RETRY_ATTEMPTS /\ isTransientError(error)

(***************************************************************************)
(* ATS coverage (services/atsCoverageService.ts).  The chunks of a job     *)
(* description stand on lines of their own and hold no sentence mark, so   *)
(* a chunk is a line and a clause, and the whole description is one        *)
(* sentence of the fallback pass.  A requirement is a text.  Keywords are  *)
(* single words.                                                           *)
(***************************************************************************)
JdMustPython == "must know python"

JdYears == "must have 5 years"

JdSqlPreferred == "sql preferred"

JdHeading == "requirements"

(* tokenize: value.toLowerCase().match(/[a-z0-9+#.]+/g), for one chunk *)
WordsOfChunk(s) ==
  CASE s = JdMustPython -> <<"must", "know", "python">>
    [] s = JdYears -> <<"must", "have", "5", "years">>
    [] s = JdSqlPreferred -> <<"sql", "preferred">>
    [] s = "6 years" -> <<"6", "years">>
    [] s = "3 years" -> <<"3", "years">>
    [] OTHER -> <<s>>

RECURSIVE tokenize(_)
tokenize(text) ==
  IF text = << >> THEN << >>
  ELSE WordsOfChunk(Head(text)) \o tokenize(Tail(text))

WordLen(w) ==
  CASE w \in {"5", "6", "3"} -> 1
    [] w = "sql" -> 3
    [] w \in {"must", "know", "have", "deep"} -> 4
    [] w = "years" -> 5
    [] w = "python" -> 6
    [] w \in {"postgres", "improved"} -> 8
    [] w = "preferred" -> 9
    [] w = "postgresql" -> 10
    [] OTHER -> 12

(* a.includes(b) for two words *)
Includes(a, b) ==
  a = b \/ <<a, b>> \in {<<"postgresql", "postgres">>, <<"postgresql", "sql">>}

STOPWORDS ==
  {"a", "an", "and", "are", "as", "at", "be", "by", "for", "from", "in", "is",
   "it", "of", "on", "or", "our", "that", "the", "their", "this", "to", "we",
   "with", "you", "your", "will", "ability", "experience", "knowledge",
   "strong", "excellent", "skills"}

(* the entries of KNOWN_TECH_KEYWORDS that the chunks can hold, in the
   order of the list *)
KNOWN_TECH_KEYWORDS == <<"python", "sql", "postgresql", "postgres">>

SHORT_TECH_ALLOWLIST == {"ai", "ml", "nlp", "llm", "ci", "cd", "r"}

(* the one-word alternatives of HARD_SIGNAL_REGEX and SOFT_SIGNAL_REGEX *)
HardSignal(text) ==
  \E w \in Range(tokenize(text)) : w \in {"must", "required", "mandatory", "essential"}

SoftSignal(text) ==
  \E w \in Range(tokenize(text)) : w \in {"preferred", "bonus", "plus", "desirable", "ideally"}

(* the one-word alternatives of SOFT_HEADING_REGEX and HARD_HEADING_REGEX *)
SoftHeading(line) ==
  \E w \in Range(WordsOfChunk(line)) : w \in {"plus", "desirable"}

HardHeading(line) ==
  \E w \in Range(WordsOfChunk(line)) : w \in {"requirements", "qualifications"}

(* detectSectionHeading; "none" is null *)
detectSectionHeading(line) ==
  IF SoftHeading(line) THEN "soft"
  ELSE IF HardHeading(line) THEN "hard"
  ELSE "none"

(* normalizeForMatch of a text: the chunks are in lower case *)
Canonical(text) == tokenize(text)

(* dedupePreserveOrder *)
RECURSIVE dedupePreserveOrder(_)
dedupePreserveOrder(items) ==
  IF items = << >> THEN << >>
  ELSE LET front == dedupePreserveOrder(SubSeq(items, 1, Len(items) - 1))
           last == items[Len(items)]
       IN IF Canonical(last) = << >>
             \/ \E i \in 1..Len(front) : Canonical(front[i]) = Canonical(last)
          THEN front
          ELSE Append(front, last)

significantTokens(text) ==
  SelectSeq(tokenize(text),
            LAMBDA w : w \in SHORT_TECH_ALLOWLIST
                       \/ (WordLen(w) >= 3 /\ w \notin STOPWORDS))

(* parseJdRequirements, the line pass: the requirements found from line i
   on while the section is `section` *)
RECURSIVE HardFromLines(_, _, _)
HardFromLines(jd, i, section) ==
  IF i > Len(jd) THEN << >>
  ELSE LET line == jd[i].s IN
       IF detectSectionHeading(line) # "none"
       THEN HardFromLines(jd, i + 1, detectSectionHeading(line))
       ELSE (IF section = "hard" \/ (HardSignal(<<line>>) /\ ~SoftSignal(<<line>>))
             THEN <<(<<line>>)>> ELSE << >>)
            \o HardFromLines(jd, i + 1, section)

(* the text of a token sequence, chunk by chunk *)
ChunksOf(jd) == [i \in 1..Len(jd) |-> jd[i].s]

(* parseJdRequirements, the fallback sentence pass *)
HardFromSentences(jd) ==
  IF jd # << >> /\ HardSignal(ChunksOf(jd)) /\ ~SoftSignal(ChunksOf(jd))
  THEN <<ChunksOf(jd)>> ELSE << >>

(* isWholeWordMatch(keyword, text) *)
isWholeWordMatch(keyword, text) == keyword \in Range(tokenize(text))

(* extractTechKeywords: no chunk holds an acronym in capitals *)
extractTechKeywords(jd) ==
  SelectSeq(KNOWN_TECH_KEYWORDS, LAMBDA k : isWholeWordMatch(k, ChunksOf(jd)))

parseJdRequirements(jd) ==
  [hardRequirements |->
     dedupePreserveOrder(HardFromLines(jd, 1, "neutral") \o HardFromSentences(jd)),
   toolsTechKeywords |-> extractTechKeywords(jd)]

(* ResumeFactsForCoverage: the lists that the extract stage fills, each a
   list of texts *)
ResumeFacts(skills, achievements) ==
  [skills |-> skills, achievements |-> achievements]

NoResumeFacts == ResumeFacts(<< >>, << >>)

(* chunks.join(" ") *)
RECURSIVE JoinTexts(_)
JoinTexts(texts) ==
  IF texts = << >> THEN << >> ELSE Head(texts) \o JoinTexts(Tail(texts))

(* buildResumeCorpus: rawText as chunks, and the token set *)
buildResumeCorpus(resumeFacts) ==
  LET rawText == ChunksOf(JoinTexts(resumeFacts.skills \o resumeFacts.achievements))
  IN [rawText |-> rawText, tokenSet |-> Range(tokenize(rawText))]

(* classifyKeyword, for a keyword of one word *)
classifyKeyword(keyword, corpus) ==
  IF WordLen(keyword) <= 2 /\ keyword \notin SHORT_TECH_ALLOWLIST THEN "missing"
  ELSE IF isWholeWordMatch(keyword, corpus.rawText) THEN "matched"
  ELSE IF WordLen(keyword) >= 4
          /\ \E t \in corpus.tokenSet : Includes(t, keyword) \/ Includes(keyword, t)
       THEN "partial"
  ELSE "missing"

YearValue(w) == CASE w = "5" -> 5 [] w = "6" -> 6 [] w = "3" -> 3 [] OTHER -> 0

(* the values of the matches of (\d+)\s*\+?\s*(years|year|yrs|yr), in order *)
YearMatches(text) ==
  LET ws == tokenize(text)
      at == {i \in 1..(Len(ws) - 1) : YearValue(ws[i]) > 0 /\ ws[i + 1] = "years"}
  IN [i \in at |-> YearValue(ws[i])]

(* extractMaxYears; 0 is null *)
extractMaxYears(text) ==
  LET m == YearMatches(text)
  IN IF DOMAIN m = {} THEN 0
     ELSE CHOOSE y \in {m[i] : i \in DOMAIN m} : \A i \in DOMAIN m : m[i] <= y

(* the year of the first match of YEARS_REGEX; 0 is null *)
requiredYearsOf(text) ==
  LET m == YearMatches(text)
  IN IF DOMAIN m = {} THEN 0
     ELSE m[CHOOSE i \in DOMAIN m : \A j \in DOMAIN m : i <= j]

(* a slip: a resume that states no years passes a years requirement *)
hardRequirementSatisfied_NoYearsPass(requirement, corpus, matchedKeywords) ==
  LET tokens == significantTokens(requirement)
      matchedTokens == Cardinality({i \in 1..Len(tokens) : tokens[i] \in corpus.tokenSet})
  IN IF \E k \in matchedKeywords :
          \E w \in Range(tokenize(requirement)) : Includes(w, k)
     THEN TRUE
     ELSE IF Len(tokens) > 0 /\ 10 * matchedTokens >= 6 * Len(tokens) THEN TRUE
     ELSE IF requiredYearsOf(requirement) # 0
          THEN extractMaxYears(corpus.rawText) = 0
               \/ extractMaxYears(corpus.rawText) >= requiredYearsOf(requirement)
     ELSE FALSE

hardRequirementSatisfied(requirement, corpus, matchedKeywords) ==
  LET tokens == significantTokens(requirement)
      matchedTokens == Cardinality({i \in 1..Len(tokens) : tokens[i] \in corpus.tokenSet})
  IN IF \E k \in matchedKeywords :
          \E w \in Range(tokenize(requirement)) : Includes(w, k)
     THEN TRUE
     ELSE IF Len(tokens) > 0 /\ 10 * matchedTokens >= 6 * Len(tokens) THEN TRUE
     ELSE IF requiredYearsOf(requirement) # 0
          THEN extractMaxYears(corpus.rawText) # 0
               /\ extractMaxYears(corpus.rawText) >= requiredYearsOf(requirement)
     ELSE FALSE

computeAtsCoverage(jobDescription, resumeFacts) ==
  LET parsedJd == parseJdRequirements(jobDescription)
      corpus == buildResumeCorpus(resumeFacts)
      kws == parsedJd.toolsTechKeywords
      Of(status) == SelectSeq(kws, LAMBDA k : classifyKeyword(k, corpus) = status)
      matched == Of("matched")
  IN [keywordCoverage |->
        [matched |-> matched, missing |-> Of("missing"), partial |-> Of("partial")],
      hardRequirementsMissing |->
        dedupePreserveOrder(
          SelectSeq(parsedJd.hardRequirements,
                    LAMBDA r : ~hardRequirementSatisfied(r, corpus, Range(matched))))]

(***************************************************************************)
(* validateAnalysisResultSchema.  A JSON value is modelled by its kind:    *)
(* "null", "number", "string", "boolean", "object", "strings" (an array    *)
(* of strings), "mixed" (an array with an element of another type),        *)
(* "traces" (an array of {chunkId, reason} objects); a language and a      *)
(* category by the string itself.  The fields of a nested object stand     *)
(* under it, with its own kind in the field kind.  An error is the path    *)
(* that its message names, with the index of the improvement or -1.        *)
(***************************************************************************)
Err(path, index) == [path |-> path, index |-> index]

isObject(kind) == kind = "object"

isStringArray(kind) == kind = "strings"

isRetrievalTraceArray(kind) == kind = "traces"

isNullableNumber(kind) == kind \in {"null", "number"}

isNullableString(kind) ==
  kind \in {"null", "string", "English", "German", "French", "critical", "optional"}

IsArray(kind) == kind \in {"strings", "mixed", "traces", "array"}

(* errors.push(message) unless the check passes *)
Check(passes, path, index) == IF passes THEN << >> ELSE <<Err(path, index)>>

(* the callback of result.improvements.forEach *)
ImprovementErrors(improvement, index) ==
  IF ~isObject(improvement.kind) THEN <<Err(<<"improvements", "item">>, index)>>
  ELSE Check(isNullableString(improvement.point), <<"improvements", "point">>, index)
       \o Check(improvement.category \in {"critical", "optional"},
                <<"improvements", "category">>, index)
       \o Check(isNullableString(improvement.impact), <<"improvements", "impact">>, index)
       \o (IF ~isObject(improvement.evidence.kind)
           THEN <<Err(<<"improvements", "evidence">>, index)>>
           ELSE Check(isStringArray(improvement.evidence.resumeQuotes),
                      <<"improvements", "evidence", "resumeQuotes">>, index)
                \o Check(isStringArray(improvement.evidence.jdQuotes),
                         <<"improvements", "evidence", "jdQuotes">>, index)
                \o Check(isStringArray(improvement.evidence.missingKeywords),
                         <<"improvements", "evidence", "missingKeywords">>, index))

RECURSIVE ForEachImprovement(_, _)
ForEachImprovement(items, index) ==
  IF index >= Len(items) THEN << >>
  ELSE ImprovementErrors(items[index + 1], index)
       \o ForEachImprovement(items, index + 1)

validateAnalysisResultSchema(value) ==
  IF ~isObject(value.kind) THEN [valid |-> FALSE, errors |-> <<Err(<<"Result">>, -1)>>]
  ELSE LET errors ==
             (IF ~isObject(value.scoreBreakdown.kind) THEN <<Err(<<"scoreBreakdown">>, -1)>>
              ELSE Check(isNullableNumber(value.scoreBreakdown.baseline),
                         <<"scoreBreakdown", "baseline">>, -1)
                   \o Check(isNullableNumber(value.scoreBreakdown.enhanced),
                            <<"scoreBreakdown", "enhanced">>, -1)
                   \o Check(isNullableString(value.scoreBreakdown.explanation),
                            <<"scoreBreakdown", "explanation">>, -1))
             \o Check(isNullableNumber(value.jobFitScore), <<"jobFitScore">>, -1)
             \o Check(isNullableString(value.overallFeedback), <<"overallFeedback">>, -1)
             \o Check(isNullableString(value.optimizedResume), <<"optimizedResume">>, -1)
             \o Check(isNullableString(value.optimizedCoverLetter),
                      <<"optimizedCoverLetter">>, -1)
             \o Check(isNullableString(value.portfolioAdvice), <<"portfolioAdvice">>, -1)
             \o Check(isNullableString(value.recruiterNotes), <<"recruiterNotes">>, -1)
             \o Check(value.evidenceSnippetWordLimit = "number",
                      <<"evidenceSnippetWordLimit">>, -1)
             \o (IF ~isObject(value.keywordCoverage.kind)
                 THEN <<Err(<<"keywordCoverage">>, -1)>>
                 ELSE Check(isStringArray(value.keywordCoverage.matched),
                            <<"keywordCoverage", "matched">>, -1)
                      \o Check(isStringArray(value.keywordCoverage.missing),
                               <<"keywordCoverage", "missing">>, -1)
                      \o Check(isStringArray(value.keywordCoverage.partial),
                               <<"keywordCoverage", "partial">>, -1))
             \o Check(isStringArray(value.hardRequirementsMissing),
                      <<"hardRequirementsMissing">>, -1)
             \o (IF ~IsArray(value.improvements.kind) THEN <<Err(<<"improvements">>, -1)>>
                 ELSE ForEachImprovement(value.improvements.items, 0))
             \o (IF ~isObject(value.analysisTrace.kind)
                 THEN <<Err(<<"analysisTrace">>, -1)>>
                 ELSE Check(value.analysisTrace.inputHash = "string",
                            <<"analysisTrace", "inputHash">>, -1)
                      \o Check(isStringArray(value.analysisTrace.retrievalChunkIds),
                               <<"analysisTrace", "retrievalChunkIds">>, -1)
                      \o Check(isRetrievalTraceArray(value.analysisTrace.retrievalTrace),
                               <<"analysisTrace", "retrievalTrace">>, -1)
                      \o Check(value.analysisTrace.modelName = "string",
                               <<"analysisTrace", "modelName">>, -1)
                      \o Check(value.analysisTrace.tier = "string",
                               <<"analysisTrace", "tier">>, -1)
                      \o Check(value.analysisTrace.timestamp = "string",
                               <<"analysisTrace", "timestamp">>, -1)
                      \o Check(value.analysisTrace.retries = "number",
                               <<"analysisTrace", "retries">>, -1))
       IN [valid |-> Len(errors) = 0, errors |-> errors]

(***************************************************************************)
(* Stage prompts, generator responses and draft validation.                *)
(***************************************************************************)
MaxDraftLen == 1

EmptyVault == [f \in {METRIC_FIELDS[i] : i \in 1..Len(METRIC_FIELDS)} |-> << >>]

(* The part of a prompt that matters here: the input text it embeds, and
   for the rewrite stage the lists it states. *)
Prompt(text, allowed, placeholders) ==
  [text |-> text, allowedNumbers |-> allowed, placeholders |-> placeholders,
   correction |-> FALSE, unauthorizedNumbers |-> << >>,
   piiIssues |-> << >>, unresolvedCount |-> 0]

NoPrompt == Prompt(<< >>, << >>, << >>)

(* extractFactsWithClient: INPUT JSON of the six text fields and the vault *)
ExtractPrompt(inp) ==
  Prompt(inp.jobDescription \o inp.companyInfo \o inp.resumeContent
           \o inp.coverLetterContent \o inp.portfolioLinks
           \o inp.additionalContext \o JoinVault(inp.metricsVault, 1),
         << >>, << >>)

(* scoreMatchWithClient: SOURCE_TEXT_JSON *)
ScorePrompt(sourceText) ==
  Prompt(sourceText.jobDescription \o sourceText.resumeContent
           \o sourceText.coverLetterContent, << >>, << >>)

PlaceholdersOf(ents) == [i \in 1..Len(ents) |-> ents[i].placeholder]

(* rewriteDocsWithClient: basePrompt *)
RewriteBasePrompt(vault, ents) ==
  Prompt(JoinVault(vault, 1), getAllowedMetricNumbers(vault), PlaceholdersOf(ents))

(* a slip: the correction prompt does not state what was found *)
CorrectionPrompt_NoFindings(vault, ents, validation) ==
  [RewriteBasePrompt(vault, ents) EXCEPT !.correction = TRUE]

(* rewriteDocsWithClient: correctionPrompt, with summarizePiiIssues *)
CorrectionPrompt(vault, ents, validation) ==
  [RewriteBasePrompt(vault, ents) EXCEPT
     !.correction = TRUE,
     !.unauthorizedNumbers = validation.unauthorizedNumbers,
     !.piiIssues = validation.unauthorizedPiiIssues,
     !.unresolvedCount = Len(validation.unresolvedPlaceholders)]

applyPiiReinsertionToRewrite(rewrite, ents) ==
  [rewrite EXCEPT
     !.optimizedResume = reinsertRedactedPii(rewrite.optimizedResume, ents),
     !.optimizedCoverLetter = reinsertRedactedPii(rewrite.optimizedCoverLetter, ents)]

(* validateDraft of rewriteDocsWithClient *)
validateDraft(draft, vault, ents) ==
  LET unauthorizedNumbers == findUnauthorizedNumbersForRewrite(draft, vault)
      privacyModeEnabled == Len(ents) > 0
      withReinsertedPii ==
        IF privacyModeEnabled THEN applyPiiReinsertionToRewrite(draft, ents)
        ELSE draft
      combinedOutput == OrEmpty(withReinsertedPii.optimizedResume)
                        \o OrEmpty(withReinsertedPii.optimizedCoverLetter)
      unauthorizedPiiIssues ==
        IF privacyModeEnabled THEN findUnauthorizedPii(combinedOutput, ents)
        ELSE << >>
      unresolvedPlaceholders ==
        IF privacyModeEnabled
        THEN findUnresolvedPiiPlaceholders(combinedOutput, ents)
        ELSE << >>
  IN [correctedDraft |-> withReinsertedPii,
      isValid |-> /\ Len(unauthorizedNumbers) = 0
                  /\ Len(unauthorizedPiiIssues) = 0
                  /\ Len(unresolvedPlaceholders) = 0,
      unauthorizedNumbers |-> unauthorizedNumbers,
      unauthorizedPiiIssues |-> unauthorizedPiiIssues,
      unresolvedPlaceholders |-> unresolvedPlaceholders]

(* JSON values of the fields of a rewrite response *)
JNull == [t |-> "null", text |-> << >>]

JNumber == [t |-> "number", text |-> << >>]

JString(text) == [t |-> "string", text |-> text]

(* asNullableString: a non-string or a blank string is null *)
asNullableString(j) ==
  IF j.t # "string" THEN Null
  ELSE IF Len(j.text) > 0 THEN Text(j.text) ELSE Null

(* asNullableNumber: a finite number or null; a JSON number is finite *)
asNullableNumber(j) == IF j.t = "number" THEN JNumber ELSE JNull

normalizeLanguage(j) ==
  IF j \in {JString(<<Str("English")>>), JString(<<Str("German")>>)}
  THEN Text(j.text) ELSE Null

(* a slip: any string is taken for a category *)
normalizeGapCategory_AnyString(j) ==
  IF j.t = "string" /\ Len(j.text) = 1 THEN j.text[1].s ELSE "critical"

normalizeGapCategory(j) ==
  IF j = JString(<<Str("optional")>>) THEN "optional" ELSE "critical"

normalizeRewriteDocs(raw) ==
  [optimizedResume |-> asNullableString(raw.optimizedResume),
   optimizedCoverLetter |-> asNullableString(raw.optimizedCoverLetter),
   rewriteNotes |-> asNullableString(raw.rewriteNotes)]

(* asStringArray: the items that asNullableString keeps, as texts *)
RECURSIVE asStringArray(_)
asStringArray(items) ==
  IF items = << >> THEN << >>
  ELSE (IF asNullableString(Head(items)).null THEN << >>
        ELSE <<asNullableString(Head(items)).text>>)
       \o asStringArray(Tail(items))

MAX_EVIDENCE_WORDS == 20

(* clampSnippetWords: the first MAX_EVIDENCE_WORDS words; a token counts as
   a word *)
clampSnippetWords(text) ==
  SubSeq(text, 1, IF Len(text) < MAX_EVIDENCE_WORDS THEN Len(text) ELSE MAX_EVIDENCE_WORDS)

asSnippetArray(items) ==
  LET kept == asStringArray(items)
  IN [i \in 1..Len(kept) |-> clampSnippetWords(kept[i])]

normalizeEvidence(value) ==
  [resumeQuotes |-> asSnippetArray(value.resumeQuotes),
   jdQuotes |-> asSnippetArray(value.jdQuotes),
   missingKeywords |-> asSnippetArray(value.missingKeywords)]

(* normalizeExtractFacts: the language, and the resume facts that the
   coverage reads *)
normalizeExtractFacts(raw) ==
  [languageDetected |-> normalizeLanguage(raw.languageDetected),
   resumeFacts |-> ResumeFacts(asStringArray(raw.resumeFacts.skills),
                               asStringArray(raw.resumeFacts.achievements))]

(* normalizeScoreMatch: the fields that the final result takes over *)
normalizeScoreMatch(raw) ==
  [baselineScore |-> asNullableNumber(raw.baselineScore),
   enhancedScore |-> asNullableNumber(raw.enhancedScore),
   jobFitScore |-> asNullableNumber(raw.jobFitScore),
   explanation |-> asNullableString(raw.explanation),
   overallFeedback |-> asNullableString(raw.overallFeedback),
   gapAnalysis |->
     [i \in 1..Len(raw.gapAnalysis) |->
        [point |-> asNullableString(raw.gapAnalysis[i].point),
         category |-> normalizeGapCategory(raw.gapAnalysis[i].category),
         impact |-> asNullableString(raw.gapAnalysis[i].impact),
         evidence |-> normalizeEvidence(raw.gapAnalysis[i].evidence)]],
   portfolioAdvice |-> asNullableString(raw.portfolioAdvice),
   recruiterNotes |-> asNullableString(raw.recruiterNotes)]

NoExtracted == [languageDetected |-> Null, resumeFacts |-> NoResumeFacts]

NoScored ==
  [baselineScore |-> JNull, enhancedScore |-> JNull, jobFitScore |-> JNull,
   explanation |-> Null, overallFeedback |-> Null, gapAnalysis |-> << >>,
   portfolioAdvice |-> Null, recruiterNotes |-> Null]

(* toLowerCase of a chunk *)
LowerCase(s) ==
  CASE s = EmailB -> EmailA
    [] s = "Python" -> "python"
    [] OTHER -> s

(* normalizeForMatch of geminiService: whitespace collapsed, lower case *)
normalizeForMatch(text) ==
  [i \in 1..Len(text) |->
     IF text[i].k = "str" THEN Str(LowerCase(text[i].s)) ELSE text[i]]

(* source.includes(snippet), token by token *)
IncludesText(source, snippet) ==
  \E at \in 0..(Len(source) - Len(snippet)) :
    \A i \in 1..Len(snippet) : source[at + i] = snippet[i]

existsInSource(snippet, source) ==
  IF snippet = << >> \/ source = << >> THEN FALSE
  ELSE IncludesText(normalizeForMatch(source), normalizeForMatch(snippet))

(* enforceEvidenceFromSource: resumeCorpus is the resume, a line break and
   the cover letter *)
enforceEvidenceFromSource(scoring, sourceText) ==
  LET resumeCorpus == sourceText.resumeContent \o sourceText.coverLetterContent
  IN [scoring EXCEPT !.gapAnalysis =
        [i \in 1..Len(scoring.gapAnalysis) |->
           LET gap == scoring.gapAnalysis[i] IN
           [gap EXCEPT !.evidence =
              [resumeQuotes |->
                 SelectSeq(gap.evidence.resumeQuotes,
                           LAMBDA q : existsInSource(q, resumeCorpus)),
               jdQuotes |->
                 SelectSeq(gap.evidence.jdQuotes,
                           LAMBDA q : existsInSource(q, sourceText.jobDescription)),
               missingKeywords |->
                 SelectSeq(gap.evidence.missingKeywords,
                           LAMBDA q : existsInSource(q, sourceText.jobDescription))]]]]

(* parseJsonText: "" for a parsed value, else the error it throws *)
parseJsonText(response) ==
  IF response.text \in {"undefined", "empty"} THEN "empty response from model"
  ELSE IF response.text \in {"json", "fenced json"} THEN ""
  ELSE "invalid JSON response"

(* what the generator may write in a draft *)
DraftAlphabet ==
  {Str(Word), Num("18"), Num("42"), Ph("PHONE", 1), Str(EmailZ)}

RECURSIVE TextsUpTo(_, _)
TextsUpTo(alphabet, len) ==
  IF len = 0 THEN {<< >>}
  ELSE LET shorter == TextsUpTo(alphabet, len - 1)
       IN shorter \cup {Append(t, a) : t \in shorter, a \in alphabet}

DraftTexts == TextsUpTo(DraftAlphabet, MaxDraftLen)

(* rewriteNotes of a draft value: of the JSON type of its resume *)
NotesWith(r) == IF r.t = "string" THEN JString(<<Str(Word)>>) ELSE r

DraftValues ==
  {[optimizedResume |-> r, optimizedCoverLetter |-> c, rewriteNotes |-> NotesWith(r)] :
     r \in {JNull, JNumber} \cup {JString(t) : t \in DraftTexts},
     c \in {JNull, JString(<<Num("42")>>)}}

NoDraftValue ==
  [optimizedResume |-> JNull, optimizedCoverLetter |-> JNull, rewriteNotes |-> JNull]

(* What a response holds in the fields that are not explored one by one:
   values of the declared types, strings everywhere (none of them a
   language or a category), numbers everywhere, or null everywhere. *)
Fillings == {"declared", "strings", "numbers", "nulls"}

Filled(filling, declared) ==
  CASE filling = "declared" -> declared
    [] filling = "strings" -> JString(<<Str("French")>>)
    [] filling = "numbers" -> JNumber
    [] OTHER -> JNull

(* the JSON of an extract response: the skills it lists and the language *)
ExtractValue(skills, filling) ==
  [languageDetected |-> Filled(filling, JString(<<Str("English")>>)),
   resumeFacts |-> [skills |-> skills, achievements |-> << >>]]

ExtractValues ==
  {ExtractValue(skills, filling) :
     skills \in {<< >>,
                 <<JString(<<Str("python")>>), JNumber, JString(<< >>)>>,
                 <<JString(<<Str("postgresql")>>), JString(<<Str("6 years")>>)>>},
     filling \in Fillings}

(* the JSON of a score response with the gaps it lists *)
ScoreResponse(gaps, filling) ==
  [baselineScore |-> Filled(filling, JNumber),
   enhancedScore |-> Filled(filling, JNumber),
   jobFitScore |-> Filled(filling, JNumber),
   explanation |-> Filled(filling, JString(<<Str(Word)>>)),
   overallFeedback |-> Filled(filling, JString(<<Str(Word)>>)),
   gapAnalysis |-> gaps,
   portfolioAdvice |-> Filled(filling, JString(<<Str(Word)>>)),
   recruiterNotes |-> Filled(filling, JString(<<Str(Word)>>))]

(* the JSON of a score response: one gap with its evidence, or none *)
ScoreValue(resumeQuotes, jdQuotes, missingKeywords, filling) ==
  ScoreResponse(
    <<[point |-> JString(<<Str(Word)>>),
       category |-> Filled(filling, JString(<<Str("optional")>>)),
       impact |-> Filled(filling, JString(<<Str(Word)>>)),
       evidence |-> [resumeQuotes |-> resumeQuotes, jdQuotes |-> jdQuotes,
                     missingKeywords |-> missingKeywords]]>>,
    filling)

ScoreValues ==
  {ScoreResponse(<< >>, filling) : filling \in Fillings}
  \cup {ScoreValue(rq, jq, mk, filling) :
          rq \in {<< >>, <<JString(<<Str(Word)>>)>>,
                  <<JString(<<Num("18"), Str("python")>>)>>,
                  <<JString(<<Str("sql")>>), JNumber>>,
                  <<JString(<<Str("Python")>>)>>},
          jq \in {<< >>, <<JString(<<Str("postgres")>>), JString(<<Str(Word)>>)>>},
          mk \in {<< >>, <<JString(<<Str("postgres")>>)>>},
          filling \in Fillings}

(* the value of a response that says nothing *)
NoValue(stageName) ==
  IF stageName = "extractFacts" THEN ExtractValue(<< >>, "nulls")
  ELSE IF stageName = "scoreMatch" THEN ScoreResponse(<< >>, "nulls")
  ELSE NoDraftValue

(* What is explored of the generator: with "drafts" every failure and every
   rewrite draft, the other stages saying nothing; with "facts" every
   extract and score value, one plain draft, and no failure; with "two",
   for two runs at once, one transient failure, an unparsable response
   and an authorized and an unauthorized draft. *)
Scenarios == {"drafts", "facts"}

PlainDraftValue ==
  [optimizedResume |-> JString(<<Str(Word)>>), optimizedCoverLetter |-> JNull,
   rewriteNotes |-> JString(<<Str(Word)>>)]

UnauthorizedDraftValue ==
  [optimizedResume |-> JString(<<Num("42")>>), optimizedCoverLetter |-> JNull,
   rewriteNotes |-> JNull]

GeneratorErrors ==
  {[status |-> 503, code |-> 0, message |-> "unavailable"],
   [status |-> 0, code |-> 429, message |-> "quota"],
   [status |-> 0, code |-> 0, message |-> "timeout"],
   [status |-> 400, code |-> 503, message |-> "bad request"],
   [status |-> 400, code |-> 0, message |-> "limit of 5000 tokens"]}

(* the errors that the generator throws in a scenario *)
ThrownIn(scen) ==
  IF scen = "drafts" THEN GeneratorErrors
  ELSE IF scen = "facts" THEN {}
  ELSE {[status |-> 503, code |-> 0, message |-> "unavailable"]}

(* the responses of the real generator to a call of a stage *)
Responses(stageName, scen) ==
  IF scen = "drafts"
  THEN {[text |-> t, value |-> NoValue(stageName)] :
          t \in {"undefined", "empty", "garbage", "fenced json"}}
       \cup {[text |-> "json", value |-> v] :
               v \in IF stageName = "rewriteDocs" THEN DraftValues
                     ELSE {NoValue(stageName)}}
  ELSE IF scen = "facts"
  THEN {[text |-> "json", value |-> v] :
          v \in IF stageName = "extractFacts" THEN ExtractValues
                ELSE IF stageName = "scoreMatch" THEN ScoreValues
                ELSE {PlainDraftValue}}
  ELSE {[text |-> "garbage", value |-> NoValue(stageName)]}
       \cup {[text |-> "json", value |-> v] :
               v \in IF stageName = "rewriteDocs"
                     THEN {PlainDraftValue, UnauthorizedDraftValue}
                     ELSE {NoValue(stageName)}}

(* buildMockGeminiClient: JSON text; buildMockRewrite writes plain words
   with every digit removed *)
MockResponses(stageName) ==
  {[text |-> "json",
    value |-> IF stageName = "rewriteDocs"
              THEN [optimizedResume |-> JString(<<Str(Word)>>),
                    optimizedCoverLetter |-> JString(<<Str(Word)>>),
                    rewriteNotes |-> JString(<<Str(Word)>>)]
              ELSE NoValue(stageName)]}

NoGeneratorError == [status |-> 0, code |-> 0, message |-> ""]

(***************************************************************************)
(* The run of one exported function: analyzeApplication, or one of the     *)
(* stage functions extractFacts, scoreMatch, rewriteDocs.  A step is the   *)
(* code that runs between two suspension points (the generator call and    *)
(* the backoff sleep).  The optional onStageRequest callback is supplied;  *)
(* events holds the traces handed to it.                                   *)
(***************************************************************************)
VARIABLES
  entry,            \* the exported function that was called
  data,             \* the ApplicationInput of the caller
  runtimeOptions,   \* modelMode and apiKey of AnalysisRuntimeOptions
  envKey,           \* import.meta.env.VITE_GEMINI_API_KEY
  pc,               \* Idle, Calling, Sleeping, Done, Failed
  client,           \* "none", "real" or "mock"
  sanitizedInput,
  redactionEntries,
  tierConfig,
  call,             \* the stage call in progress (runStructuredStage)
  attempt,          \* attempt of withRetry
  caught,           \* the error bound by the catch clause of withRetry
  retryCount,       \* retryCount of analyzeApplication
  firstDraft,       \* firstDraft of rewriteDocsWithClient, while it runs
  events,           \* the stage-request traces emitted so far
  callInvocations,  \* generator invocations made for the stage call in progress
  generatorCalls,   \* generator invocations made in the run
  request,          \* the parameters of the latest generator invocation
  inFlight,         \* generator invocations not yet settled
  settled,          \* how the awaited invocation settled; none once retried
  draftsReceived,   \* rewrite drafts parsed so far
  sleeps,           \* backoff sleeps started so far
  result,           \* the value returned to the caller
  error,            \* the error thrown to the caller
  scenario,         \* what is explored of the generator
  extracted,        \* extracted of analyzeApplication
  scored,           \* scored of analyzeApplication, or what scoreMatch returns
  validation,       \* the latest value of validateDraft in rewriteDocsWithClient
  fnName,           \* the function that is called on its own
  fnInput,          \* its argument
  fnOutput,         \* the value it returned
  fnApplied,        \* whether it has returned
  other,            \* the run that is suspended while another run steps
  active            \* which run is the one in the variables above

vars ==
  <<entry, data, runtimeOptions, envKey, pc, client, sanitizedInput,
    redactionEntries, tierConfig, call, attempt, caught, retryCount,
    firstDraft, events, callInvocations, generatorCalls, request, inFlight,
    settled, draftsReceived, sleeps, result, error, scenario, extracted,
    scored, validation, fnName, fnInput, fnOutput, fnApplied, other, active>>

fnVars == <<fnName, fnInput, fnOutput, fnApplied>>

twoVars == <<other, active>>

Entries == {"analyzeApplication", "extractFacts", "scoreMatch", "rewriteDocs"}

Vault(field, text) == [EmptyVault EXCEPT ![field] = text]

Input(jd, resume, cover, mode, privacy, vault) ==
  [jobDescription |-> jd, companyInfo |-> << >>, resumeContent |-> resume,
   coverLetterContent |-> cover, portfolioLinks |-> << >>,
   additionalContext |-> << >>, analysisMode |-> mode,
   privacyMode |-> privacy, metricsVault |-> vault]

(* the applications that are analyzed *)
Inputs ==
  {Input(<<Str(JdMustPython), Str("postgres")>>, <<Str(Word), Num("18")>>,
         <<Str("python")>>, "balanced", FALSE,
         Vault("projectImpact", <<Num("18.0")>>)),
   Input(<<Str(Word)>>, <<Str(EmailA), Str(PhoneA)>>, << >>, "fast", FALSE,
         EmptyVault),
   Input(<<Str(Word)>>, <<Str(EmailA), Str(PhoneA)>>, << >>, "balanced", TRUE,
         Vault("usersServed", <<Num("1")>>)),
   Input(<<Str(Word)>>, <<Str(Word)>>, << >>, "balanced", TRUE,
         Vault("projectImpact", <<Num("18")>>)),
   Input(<<Str(Deep)>>, <<Label("PERSONAL_ID"), Str(IdA), Str(IdA)>>, << >>,
         "balanced", TRUE, EmptyVault),
   Input(<<Str(Word)>>, <<Str(Para), Str(EmailB)>>, <<Str(EmailA)>>,
         "balanced", TRUE, Vault("otherMetrics", <<Str(EmailA), Num("18")>>)),
   Input(<<Str(Word)>>, <<Label("BIRTH_DATE"), Str(DateA), Str(StreetA)>>,
         << >>, "deep", TRUE, EmptyVault),
   Input(<<Str(Word)>>, <<Str(PhoneA)>>, << >>, "balanced", TRUE, EmptyVault)}

(* modelMode "" is an unset mode *)
Configurations ==
  {<<"real", "k", "">>, <<"real", "", "k">>, <<"real", "", "">>,
   <<"real", " ", " ">>, <<"", "", "">>, <<"mock", "", "">>}

NoCall == [stageName |-> "", correction |-> FALSE, prompt |-> NoPrompt]

NoDraft ==
  [optimizedResume |-> Null, optimizedCoverLetter |-> Null, rewriteNotes |-> Null]

NoCoverage == [matched |-> << >>, missing |-> << >>, partial |-> << >>]

NoResult ==
  [scoreBreakdown |-> [baseline |-> JNull, enhanced |-> JNull, explanation |-> Null],
   jobFitScore |-> JNull, overallFeedback |-> Null,
   optimizedResume |-> Null, optimizedCoverLetter |-> Null,
   languageDetected |-> Null, portfolioAdvice |-> Null, recruiterNotes |-> Null,
   evidenceSnippetWordLimit |-> 0,
   retries |-> 0, tier |-> "", modelName |-> "",
   improvements |-> << >>, keywordCoverage |-> NoCoverage,
   hardRequirementsMissing |-> << >>]

(* what an error names besides its message *)
NoDetail ==
  [unauthorizedNumbers |-> << >>, unauthorizedPiiIssues |-> << >>,
   unresolvedPlaceholders |-> << >>]

NoError == [kind |-> "", cause |-> NoGeneratorError, detail |-> NoDetail]

(* no draft was validated *)
NoValidation ==
  [correctedDraft |-> NoDraft, isValid |-> TRUE, unauthorizedNumbers |-> << >>,
   unauthorizedPiiIssues |-> << >>, unresolvedPlaceholders |-> << >>]

(* The generator's side of an invocation: it returned JSON text (plain or
   fenced), returned something else, or threw error. *)
NotSettled == [how |-> "", error |-> NoGeneratorError]

Returned(resp) ==
  [how |-> IF resp.text \in {"json", "fenced json"} THEN "json" ELSE resp.text,
   error |-> NoGeneratorError]

Threw(e) == [how |-> "threw", error |-> e]

NoRequest == [stageName |-> "", model |-> "", tier |-> "", prompt |-> NoPrompt]

(* no function is called on its own *)
NoFunction ==
  /\ fnName = "" /\ fnInput = << >> /\ fnOutput = << >> /\ fnApplied = FALSE

(* no second run *)
NoOtherRun == other = << >> /\ active = 1

(* nothing of a run exists before the call *)
BeforeCall ==
  /\ pc = "Idle"
  /\ client = "none"
  /\ sanitizedInput = data
  /\ redactionEntries = << >>
  /\ tierConfig = [tier |-> "", model |-> ""]
  /\ call = NoCall
  /\ attempt = 0
  /\ caught = NoGeneratorError
  /\ retryCount = 0
  /\ firstDraft = NoDraft
  /\ events = << >>
  /\ callInvocations = 0
  /\ generatorCalls = 0
  /\ request = NoRequest
  /\ inFlight = 0
  /\ settled = NotSettled
  /\ draftsReceived = 0
  /\ sleeps = 0
  /\ result = NoResult
  /\ error = NoError
  /\ extracted = NoExtracted
  /\ scored = NoScored
  /\ validation = NoValidation

Init ==
  /\ entry \in Entries
  /\ data \in Inputs
  /\ \E c \in Configurations :
       /\ runtimeOptions = [modelMode |-> c[1], apiKey |-> c[2]]
       /\ envKey = c[3]
  /\ scenario \in Scenarios
  /\ BeforeCall
  /\ NoFunction
  /\ NoOtherRun

(* the metrics vault and redaction entries the rewrite stage is given *)
RewriteVault ==
  IF entry = "analyzeApplication" THEN sanitizedInput.metricsVault
  ELSE data.metricsVault

RewriteEntries == IF entry = "analyzeApplication" THEN redactionEntries ELSE << >>

StageTrace(stageName, cfg, prompt) ==
  [stageName |-> stageName, model |-> cfg.model, tier |-> cfg.tier,
   prompt |-> prompt]

(* runStructuredStage up to the first generateContent call: the trace is
   handed to onStageRequest, then withRetry makes attempt 1.  over is the
   number of invocations that settled in this step. *)
BeginStage(stageName, correction, prompt, cfg, over) ==
  /\ call' = [stageName |-> stageName, correction |-> correction, prompt |-> prompt]
  /\ events' = Append(events, StageTrace(stageName, cfg, prompt))
  /\ attempt' = 1
  /\ caught' = NoGeneratorError
  /\ callInvocations' = 1
  /\ generatorCalls' = generatorCalls + 1
  /\ request' = StageTrace(stageName, cfg, prompt)
  /\ inFlight' = inFlight - over + 1
  /\ pc' = "Calling"

(* getGeminiClient throws: no key in real mode *)
CallMissingKey ==
  /\ UNCHANGED <<fnVars, twoVars, scenario, extracted, scored, validation>>
  /\ pc = "Idle"
  /\ getGeminiClient(runtimeOptions, envKey) = "throws"
  /\ pc' = "Failed"
  /\ error' = [kind |-> "Missing Gemini API key", cause |-> NoGeneratorError,
                detail |-> NoDetail]
  /\ UNCHANGED <<entry, data, runtimeOptions, envKey, client, sanitizedInput,
                 redactionEntries, tierConfig, call, attempt, caught,
                 retryCount, firstDraft, events, callInvocations,
                 generatorCalls, request, inFlight, settled, draftsReceived,
                 sleeps, result>>

(* analyzeApplication and extractFacts up to the first generator call *)
CallWithPreparation ==
  /\ UNCHANGED <<fnVars, twoVars, scenario, extracted, scored, validation>>
  /\ pc = "Idle"
  /\ entry \in {"analyzeApplication", "extractFacts"}
  /\ getGeminiClient(runtimeOptions, envKey) # "throws"
  /\ client' = getGeminiClient(runtimeOptions, envKey)
  /\ LET prepared == prepareApplicationForGemini(data)
         cfg == getTierConfig(selectTier(prepared.sanitizedInput))
     IN /\ sanitizedInput' = prepared.sanitizedInput
        /\ redactionEntries' = prepared.redactionEntries
        /\ tierConfig' = cfg
        /\ BeginStage("extractFacts", FALSE,
                      ExtractPrompt(prepared.sanitizedInput), cfg, 0)
  /\ retryCount' = 0
  /\ UNCHANGED <<entry, data, runtimeOptions, envKey, firstDraft, settled,
                 draftsReceived, sleeps, result, error>>

(* scoreMatch and rewriteDocs up to the first generator call *)
CallStageFunction ==
  /\ UNCHANGED <<fnVars, twoVars, scenario, extracted, scored, validation>>
  /\ pc = "Idle"
  /\ entry \in {"scoreMatch", "rewriteDocs"}
  /\ getGeminiClient(runtimeOptions, envKey) # "throws"
  /\ client' = getGeminiClient(runtimeOptions, envKey)
  /\ LET cfg == getTierConfig(tierFromMode(data.analysisMode))
     IN /\ tierConfig' = cfg
        /\ IF entry = "scoreMatch"
           THEN BeginStage("scoreMatch", FALSE, ScorePrompt(data), cfg, 0)
           ELSE BeginStage("rewriteDocs", FALSE,
                           RewriteBasePrompt(data.metricsVault, << >>), cfg, 0)
  /\ UNCHANGED <<entry, data, runtimeOptions, envKey, sanitizedInput,
                 redactionEntries, retryCount, firstDraft, settled,
                 draftsReceived, sleeps, result, error>>

(* a slip: incrementRetry is not handed to the stages *)
onRetry_Undefined(count) == count

(* onRetry: incrementRetry in analyzeApplication, undefined elsewhere *)
onRetry(count) == IF entry = "analyzeApplication" THEN count + 1 ELSE count

(* withRetry, catch: the generator threw e *)
GeneratorThrows(e) ==
  /\ UNCHANGED <<fnVars, twoVars, scenario, extracted, scored, validation>>
  /\ pc = "Calling"
  /\ client = "real" /\ e \in ThrownIn(scenario)
  /\ inFlight' = inFlight - 1
  /\ settled' = Threw(e)
  /\ IF shouldRetry(attempt, e)
        THEN /\ caught' = e
             /\ retryCount' = onRetry(retryCount)
             /\ sleeps' = sleeps + 1
             /\ pc' = "Sleeping"
             /\ UNCHANGED <<error, firstDraft>>
        ELSE /\ caught' = NoGeneratorError
             /\ pc' = "Failed"
             /\ error' = [kind |-> "generator", cause |-> e, detail |-> NoDetail]
             /\ firstDraft' = NoDraft
             /\ UNCHANGED <<retryCount, sleeps>>
  /\ UNCHANGED <<entry, data, runtimeOptions, envKey, client, sanitizedInput,
                 redactionEntries, tierConfig, call, attempt, events,
                 callInvocations, generatorCalls, request, draftsReceived,
                 result>>

(* a slip: the trace is emitted inside the retry loop *)
BackoffEnds_Reemit ==
  /\ UNCHANGED <<fnVars, twoVars, scenario, extracted, scored, validation>>
  /\ pc = "Sleeping"
  /\ attempt' = attempt + 1
  /\ caught' = NoGeneratorError
  /\ settled' = NotSettled
  /\ callInvocations' = callInvocations + 1
  /\ generatorCalls' = generatorCalls + 1
  /\ events' = Append(events, StageTrace(call.stageName, tierConfig, call.prompt))
  /\ request' = StageTrace(call.stageName, tierConfig, call.prompt)
  /\ inFlight' = inFlight + 1
  /\ pc' = "Calling"
  /\ UNCHANGED <<entry, data, runtimeOptions, envKey, client, sanitizedInput,
                 redactionEntries, tierConfig, call, retryCount,
                 firstDraft, draftsReceived, sleeps, result, error>>

(* withRetry: the backoff sleep is over, the next attempt calls the generator *)
BackoffEnds ==
  /\ UNCHANGED <<fnVars, twoVars, scenario, extracted, scored, validation>>
  /\ pc = "Sleeping"
  /\ attempt' = attempt + 1
  /\ caught' = NoGeneratorError
  /\ settled' = NotSettled
  /\ callInvocations' = callInvocations + 1
  /\ generatorCalls' = generatorCalls + 1
  /\ request' = StageTrace(call.stageName, tierConfig, call.prompt)
  /\ inFlight' = inFlight + 1
  /\ pc' = "Calling"
  /\ UNCHANGED <<entry, data, runtimeOptions, envKey, client, sanitizedInput,
                 redactionEntries, tierConfig, call, retryCount,
                 firstDraft, events, draftsReceived, sleeps, result, error>>

ResponsesOf(stageName) ==
  IF client = "mock" THEN MockResponses(stageName)
  ELSE Responses(stageName, scenario)

(* runStructuredStage: parseJsonText throws on the response *)
ResponseUnparsable(resp) ==
  /\ UNCHANGED <<fnVars, twoVars, scenario, extracted, scored, validation>>
  /\ pc = "Calling"
  /\ parseJsonText(resp) # ""
  /\ inFlight' = inFlight - 1
  /\ pc' = "Failed"
  /\ error' = [kind |-> parseJsonText(resp), cause |-> NoGeneratorError,
                detail |-> NoDetail]
  /\ firstDraft' = NoDraft
  /\ settled' = Returned(resp)
  /\ UNCHANGED <<entry, data, runtimeOptions, envKey, client, sanitizedInput,
                 redactionEntries, tierConfig, call, attempt, caught,
                 retryCount, events, callInvocations, generatorCalls, request,
                 draftsReceived, sleeps, result>>

(* the function returns to its caller; its locals are gone *)
Return(value) ==
  /\ pc' = "Done"
  /\ result' = value
  /\ firstDraft' = NoDraft
  /\ inFlight' = inFlight - 1
  /\ UNCHANGED <<call, attempt, caught, events, callInvocations,
                 generatorCalls, request, error>>

(* a slip: the rewrite is requested before the scoring *)
StageAfter_Swapped(stageName) ==
  IF stageName = "extractFacts" THEN "rewriteDocs" ELSE "scoreMatch"

(* the stage that analyzeApplication calls after a stage has returned *)
StageAfter(stageName) ==
  IF stageName = "extractFacts" THEN "scoreMatch" ELSE "rewriteDocs"

(* the prompt of the stage that follows in analyzeApplication *)
PromptOf(stageName) ==
  IF stageName = "scoreMatch" THEN ScorePrompt(sanitizedInput)
  ELSE RewriteBasePrompt(sanitizedInput.metricsVault, redactionEntries)

(* extractFacts or scoreMatch returned parsable JSON *)
StageReturns(resp) ==
  /\ UNCHANGED <<fnVars, twoVars, scenario, validation>>
  /\ pc = "Calling"
  /\ call.stageName \in {"extractFacts", "scoreMatch"}
  /\ parseJsonText(resp) = ""
  /\ IF call.stageName = "extractFacts"
     THEN /\ extracted' = normalizeExtractFacts(resp.value)
          /\ UNCHANGED scored
     ELSE /\ scored' = enforceEvidenceFromSource(
                         normalizeScoreMatch(resp.value),
                         IF entry = "analyzeApplication" THEN sanitizedInput ELSE data)
          /\ UNCHANGED extracted
  /\ settled' = Returned(resp)
  /\ IF entry = "analyzeApplication"
     THEN /\ BeginStage(StageAfter(call.stageName), FALSE,
                        PromptOf(StageAfter(call.stageName)), tierConfig, 1)
          /\ UNCHANGED <<result, error, firstDraft>>
     ELSE Return(NoResult)
  /\ UNCHANGED <<entry, data, runtimeOptions, envKey, client, sanitizedInput,
                 redactionEntries, tierConfig, retryCount, draftsReceived,
                 sleeps>>

(* analyzeApplication: final assembly.  Of analysisTrace, retries, tier and
   modelName stand in the result itself. *)
FinalAssembly(rewritten, retries, coverage) ==
  LET recruiterNotes == OrEmpty(scored.recruiterNotes) \o OrEmpty(rewritten.rewriteNotes)
  IN [scoreBreakdown |-> [baseline |-> scored.baselineScore,
                          enhanced |-> scored.enhancedScore,
                          explanation |-> scored.explanation],
      jobFitScore |-> scored.jobFitScore,
      overallFeedback |-> scored.overallFeedback,
      improvements |-> scored.gapAnalysis,
      optimizedResume |-> rewritten.optimizedResume,
      optimizedCoverLetter |-> rewritten.optimizedCoverLetter,
      languageDetected |-> extracted.languageDetected,
      portfolioAdvice |-> scored.portfolioAdvice,
      recruiterNotes |-> IF recruiterNotes = << >> THEN Null ELSE Text(recruiterNotes),
      evidenceSnippetWordLimit |-> MAX_EVIDENCE_WORDS,
      keywordCoverage |-> coverage.keywordCoverage,
      hardRequirementsMissing |-> coverage.hardRequirementsMissing,
      retries |-> retries, tier |-> tierConfig.tier, modelName |-> tierConfig.model]

(* a slip: the coverage fields are taken from what the score stage said *)
FinalResult_FromScored(rewritten, retries) ==
  LET said == IF scored.gapAnalysis = << >> THEN << >>
              ELSE scored.gapAnalysis[1].evidence.missingKeywords
  IN FinalAssembly(rewritten, retries,
                   [keywordCoverage |-> [matched |-> << >>, missing |-> said,
                                         partial |-> << >>],
                    hardRequirementsMissing |-> said])

(* analyzeApplication: finalResult, with the deterministic coverage *)
FinalResult(rewritten, retries) ==
  FinalAssembly(rewritten, retries,
                computeAtsCoverage(sanitizedInput.jobDescription, extracted.resumeFacts))

(* the kind of a nullable string *)
StringKind(v) == IF v.null THEN "null" ELSE "string"

(* finalResult as the JSON value that validateAnalysisResultSchema reads:
   every field by its kind.  inputHash and timestamp are strings,
   retrievalChunkIds and retrievalTrace come from selectRetrievalTrace. *)
JsonOf(finalResult) ==
  [kind |-> "object",
   scoreBreakdown |->
     [kind |-> "object",
      baseline |-> finalResult.scoreBreakdown.baseline.t,
      enhanced |-> finalResult.scoreBreakdown.enhanced.t,
      explanation |-> StringKind(finalResult.scoreBreakdown.explanation)],
   jobFitScore |-> finalResult.jobFitScore.t,
   overallFeedback |-> StringKind(finalResult.overallFeedback),
   improvements |->
     [kind |-> "array",
      items |-> [i \in 1..Len(finalResult.improvements) |->
                   [kind |-> "object",
                    point |-> StringKind(finalResult.improvements[i].point),
                    category |-> finalResult.improvements[i].category,
                    impact |-> StringKind(finalResult.improvements[i].impact),
                    evidence |-> [kind |-> "object", resumeQuotes |-> "strings",
                                  jdQuotes |-> "strings",
                                  missingKeywords |-> "strings"]]]],
   optimizedResume |-> StringKind(finalResult.optimizedResume),
   optimizedCoverLetter |-> StringKind(finalResult.optimizedCoverLetter),
   languageDetected |-> IF finalResult.languageDetected.null THEN "null"
                        ELSE finalResult.languageDetected.text[1].s,
   portfolioAdvice |-> StringKind(finalResult.portfolioAdvice),
   recruiterNotes |-> StringKind(finalResult.recruiterNotes),
   evidenceSnippetWordLimit |-> "number",
   keywordCoverage |-> [kind |-> "object", matched |-> "strings",
                        missing |-> "strings", partial |-> "strings"],
   hardRequirementsMissing |-> "strings",
   analysisTrace |-> [kind |-> "object", inputHash |-> "string",
                      retrievalChunkIds |-> "strings", retrievalTrace |-> "traces",
                      modelName |-> "string", tier |-> "string",
                      timestamp |-> "string", retries |-> "number"]]

SchemaError == "AnalysisResult schema validation failed"

(* the function throws err; its locals are gone *)
Throw(err) ==
  /\ pc' = "Failed"
  /\ error' = err
  /\ firstDraft' = NoDraft
  /\ inFlight' = inFlight - 1
  /\ UNCHANGED <<call, attempt, caught, events, callInvocations,
                 generatorCalls, request, result>>

(* the rewrite stage returned rewritten: analyzeApplication assembles and
   validates the result, rewriteDocs returns the draft *)
ReturnRewrite(rewritten, retries) ==
  IF entry = "analyzeApplication"
  THEN LET finalResult == FinalResult(rewritten, retries)
           schemaValidation == validateAnalysisResultSchema(JsonOf(finalResult))
       IN IF schemaValidation.valid THEN Return(finalResult)
          ELSE Throw([kind |-> SchemaError, cause |-> NoGeneratorError,
                      detail |-> NoDetail])
  ELSE Return([NoResult EXCEPT
                 !.optimizedResume = rewritten.optimizedResume,
                 !.optimizedCoverLetter = rewritten.optimizedCoverLetter])

(* rewriteDocsWithClient: the first draft arrived *)
RewriteReturns(resp) ==
  /\ UNCHANGED <<fnVars, twoVars, scenario, extracted, scored>>
  /\ pc = "Calling"
  /\ call.stageName = "rewriteDocs" /\ ~call.correction
  /\ parseJsonText(resp) = ""
  /\ settled' = Returned(resp)
  /\ draftsReceived' = draftsReceived + 1
  /\ LET draft == normalizeRewriteDocs(resp.value)
         firstValidation == validateDraft(draft, RewriteVault, RewriteEntries)
     IN /\ validation' = firstValidation
        /\ IF firstValidation.isValid
           THEN /\ ReturnRewrite(firstValidation.correctedDraft, retryCount)
                /\ UNCHANGED retryCount
           ELSE /\ retryCount' = onRetry(retryCount)
                /\ firstDraft' = draft
                /\ BeginStage("rewriteDocs", TRUE,
                              CorrectionPrompt(RewriteVault, RewriteEntries,
                                               firstValidation),
                              tierConfig, 1)
                /\ UNCHANGED <<result, error>>
  /\ UNCHANGED <<entry, data, runtimeOptions, envKey, client, sanitizedInput,
                 redactionEntries, tierConfig, sleeps>>

(* rewriteDocsWithClient: the corrected draft arrived *)
CorrectionReturns(resp) ==
  /\ UNCHANGED <<fnVars, twoVars, scenario, extracted, scored>>
  /\ pc = "Calling"
  /\ call.stageName = "rewriteDocs" /\ call.correction
  /\ parseJsonText(resp) = ""
  /\ settled' = Returned(resp)
  /\ draftsReceived' = draftsReceived + 1
  /\ LET correctedDraft == normalizeRewriteDocs(resp.value)
         correctedValidation ==
           validateDraft(correctedDraft, RewriteVault, RewriteEntries)
     IN /\ validation' = correctedValidation
        /\ IF correctedValidation.isValid
           THEN ReturnRewrite(correctedValidation.correctedDraft, retryCount)
           ELSE Throw([kind |-> "rewriteDocs failed validation after correction prompt.",
                       cause |-> NoGeneratorError, detail |-> NoDetail])
  /\ UNCHANGED <<entry, data, runtimeOptions, envKey, client, sanitizedInput,
                 redactionEntries, tierConfig, retryCount, sleeps>>

GeneratorReturns ==
  \E resp \in ResponsesOf(call.stageName) :
    \/ ResponseUnparsable(resp)
    \/ StageReturns(resp)
    \/ RewriteReturns(resp)
    \/ CorrectionReturns(resp)

Next ==
  \/ CallMissingKey
  \/ CallWithPreparation
  \/ CallStageFunction
  \/ \E e \in GeneratorErrors : GeneratorThrows(e)
  \/ BackoffEnds
  \/ GeneratorReturns

Spec == Init /\ [][Next]_vars

(***************************************************************************)
(* Properties.                                                             *)
(***************************************************************************)
RewriteEvents == {i \in 1..Len(events) : events[i].stageName = "rewriteDocs"}

CorrectionEvents == {i \in 1..Len(events) : events[i].prompt.correction}

ValidationError == "rewriteDocs failed validation after correction prompt."

ResultText == OrEmpty(result.optimizedResume) \o OrEmpty(result.optimizedCoverLetter)

DraftText(draft) == OrEmpty(draft.optimizedResume) \o OrEmpty(draft.optimizedCoverLetter)

(* the error is transient in the sense of the retry policy: a transient
   HTTP status, or a message of the transient kind *)
TransientByPolicy(e) ==
  \/ e.status \in {408, 409, 425, 429, 500, 502, 503, 504}
  \/ e.status = 0 /\ e.code \in {408, 409, 425, 429, 500, 502, 503, 504}
  \/ e.message \in {"timeout", "limit of 5000 tokens"}

(* C1: the rewrite stage makes at most one corrective stage call.  A
   correction call is the last stage call, directly follows the first
   rewrite call, and is made only for an invalid first draft; its prompt
   states the unauthorized numbers of that draft, the allowed numbers and
   the placeholders.  A run that returns after one draft made no correction
   call, a run that returns after two made one, a third draft is never
   received, and the validation failure is raised only after the second. *)
C1_OneCorrectiveReprompt ==
  /\ Cardinality(CorrectionEvents) <= 1
  /\ Cardinality(RewriteEvents) <= 2
  /\ draftsReceived <= 2
  /\ \A i \in CorrectionEvents :
       /\ i = Len(events) /\ i > 1
       /\ events[i].stageName = "rewriteDocs"
       /\ events[i - 1].stageName = "rewriteDocs"
       /\ ~events[i - 1].prompt.correction
       /\ draftsReceived >= 1
  /\ (pc \in {"Calling", "Sleeping"} /\ call.correction) =>
       /\ ~validateDraft(firstDraft, RewriteVault, RewriteEntries).isValid
       /\ draftsReceived = 1
       /\ Range(call.prompt.unauthorizedNumbers) =
            Range(AllNumberTokens(DraftText(firstDraft)))
              \ Range(AllNumberTokens(JoinVault(RewriteVault, 1)))
       /\ Range(call.prompt.allowedNumbers) =
            Range(AllNumberTokens(JoinVault(RewriteVault, 1)))
       /\ Range(call.prompt.placeholders) =
            {RewriteEntries[i].placeholder : i \in 1..Len(RewriteEntries)}
  /\ (pc = "Done" /\ RewriteEvents # {}) =>
       /\ draftsReceived = 1 <=> CorrectionEvents = {}
       /\ draftsReceived = 2 <=> CorrectionEvents # {}
  /\ error.kind = ValidationError =>
       pc = "Failed" /\ draftsReceived = 2 /\ CorrectionEvents # {}

(* the corrected draft was invalid as well: the stage has failed *)
C1_Witness ==
  /\ pc = "Failed" /\ error.kind = ValidationError
  /\ draftsReceived = 2
  /\ events[Len(events)].prompt.unauthorizedNumbers # << >>

(* C2: a stage call invokes the generator at most 3 times; a further
   invocation of the same call is made only after a backoff that follows a
   transient error; when the third invocation throws, the run fails with
   that error. *)
C2_RetryPolicy ==
  /\ [](/\ callInvocations <= 3
        /\ pc = "Sleeping" => TransientByPolicy(caught) /\ callInvocations < 3)
  /\ [][(generatorCalls' = generatorCalls + 1 /\ events' = events) =>
          /\ pc = "Sleeping" /\ TransientByPolicy(caught)
          /\ callInvocations' = callInvocations + 1]_vars
  /\ [][(pc = "Calling" /\ callInvocations = 3 /\ settled'.how = "threw") =>
          /\ pc' = "Failed" /\ error'.cause = settled'.error
          /\ generatorCalls' = generatorCalls]_vars

(* the third invocation of a call failed with a transient error *)
C2_Witness ==
  /\ pc = "Failed" /\ callInvocations = 3
  /\ settled.how = "threw" /\ TransientByPolicy(settled.error)

(* the invocation settled with a failure that is not transient *)
FatalOutcome(s) ==
  \/ s.how \in {"undefined", "empty", "garbage"}
  \/ s.how = "threw" /\ ~TransientByPolicy(s.error)

(* C3: when an invocation throws a non-transient error, or returns no text
   or text that is not JSON, the run fails in that step with that error:
   no further invocation, no further stage; a failed run stays failed. *)
C3_FatalNotRetried ==
  /\ [][(pc = "Calling" /\ FatalOutcome(settled')) =>
          /\ pc' = "Failed"
          /\ generatorCalls' = generatorCalls /\ events' = events
          /\ inFlight' = 0
          /\ settled'.how = "threw" => error'.cause = settled'.error
          /\ settled'.how \in {"undefined", "empty"} =>
               error'.kind = "empty response from model"
          /\ settled'.how = "garbage" => error'.kind = "invalid JSON response"]_vars
  /\ [][pc = "Failed" =>
          pc' = "Failed" /\ generatorCalls' = generatorCalls /\ events' = events]_vars
  /\ [](pc = "Sleeping" => ~FatalOutcome(settled))

(* the first invocation of the scoring stage threw a non-transient error
   that carries a transient code next to its status *)
C3_Witness ==
  /\ pc = "Failed" /\ callInvocations = 1 /\ call.stageName = "scoreMatch"
  /\ settled.how = "threw" /\ ~TransientByPolicy(settled.error)
  /\ settled.error.code = 503

(* the numbers read from a text, as a set *)
NumbersOf(text) == Range(AllNumberTokens(text))

(* the raw documents of the input *)
RawInputText ==
  data.jobDescription \o data.resumeContent \o data.coverLetterContent
    \o data.companyInfo \o data.additionalContext

(* C4: every number of the documents analyzeApplication returns is a number
   of the metrics vault, or of the raw input while the vault is empty. *)
C4_NumbersTraceable ==
  (pc = "Done" /\ entry = "analyzeApplication") =>
    IF JoinVault(data.metricsVault, 1) # << >>
    THEN NumbersOf(ResultText) \subseteq NumbersOf(JoinVault(data.metricsVault, 1))
    ELSE NumbersOf(ResultText) \subseteq NumbersOf(RawInputText)

(* C5: with privacy mode on, the documents analyzeApplication returns hold
   no detected PII value outside the redaction entries and no placeholder
   that the entries do not know. *)
C5_NoPiiLeak ==
  (pc = "Done" /\ entry = "analyzeApplication" /\ data.privacyMode) =>
    /\ findUnauthorizedPii(ResultText, redactionEntries) = << >>
    /\ findUnresolvedPiiPlaceholders(ResultText, redactionEntries) = << >>

(* the texts of the sanitized input: its text fields and its vault entries *)
SanitizedTexts ==
  {sanitizedInput[f] : f \in Range(TEXT_FIELDS)}
    \cup {sanitizedInput.metricsVault[f] : f \in Range(METRIC_FIELDS)}

(* C6: with privacy mode on, no text of the sanitized input, and so no
   extractFacts prompt, holds a raw occurrence of the original value of a
   redaction entry. *)
C6_NoRawOriginal ==
  (data.privacyMode /\ entry \in {"analyzeApplication", "extractFacts"}
     /\ client # "none") =>
    \A i \in 1..Len(redactionEntries) :
      /\ \A t \in SanitizedTexts : Str(redactionEntries[i].original) \notin Range(t)
      /\ \A j \in 1..Len(events) :
           events[j].stageName = "extractFacts" =>
             Str(redactionEntries[i].original) \notin Range(events[j].prompt.text)

AnalyzeOrder == <<"extractFacts", "scoreMatch", "rewriteDocs", "rewriteDocs">>

InAnalyzeOrder ==
  /\ Len(events) <= 4
  /\ \A i \in 1..Len(events) : events[i].stageName = AnalyzeOrder[i]

(* C7: analyzeApplication calls the stages in the order extractFacts,
   scoreMatch, rewriteDocs and, if made, the correction; a stage call begins
   only in the step in which the invocation of the call before it returned
   JSON, and at most one generator invocation is in flight. *)
C7_StagesInOrder ==
  /\ [](/\ inFlight \in {0, 1}
        /\ inFlight = 1 <=> pc = "Calling"
        /\ entry = "analyzeApplication" =>
             /\ InAnalyzeOrder
             /\ CorrectionEvents \subseteq {4}
             /\ pc = "Done" => Len(events) >= 3)
  /\ [][(entry = "analyzeApplication" /\ events' # events /\ events # << >>) =>
          /\ pc = "Calling" /\ settled'.how = "json" /\ inFlight' = 1
          /\ Len(events') = Len(events) + 1]_vars

(* analyzeApplication returned after the scoring stage was retried *)
C7_Witness ==
  /\ pc = "Done" /\ entry = "analyzeApplication"
  /\ Len(events) = 3 /\ generatorCalls = 5 /\ call.stageName = "rewriteDocs"

(* C8: the retries reported by analyzeApplication are the transient retries
   plus one for a correction call, that is all generator invocations but
   the three first ones; they are 0 exactly when no retry and no correction
   was made. *)
C8_RetriesCounted ==
  (pc = "Done" /\ entry = "analyzeApplication") =>
    /\ result.retries = sleeps + Cardinality(CorrectionEvents)
    /\ result.retries = generatorCalls - 3
    /\ result.retries = 0 <=> (sleeps = 0 /\ draftsReceived = 1)

(* retries of both kinds were counted *)
C8_Witness ==
  /\ pc = "Done" /\ entry = "analyzeApplication"
  /\ sleeps = 2 /\ CorrectionEvents # {} /\ result.retries = 3

(* no key is configured, in the options or in the environment *)
KeyMissing ==
  /\ runtimeOptions.modelMode # "mock"
  /\ runtimeOptions.apiKey \in {"", " "}
  /\ envKey \in {"", " "}

MissingKeyError == "Missing Gemini API key"

(* C9: in real mode without a key every exported function fails on its
   call, before any trace and any generator invocation; in mock mode no
   key is needed and the call goes on to the first stage. *)
C9_KeyRequired ==
  /\ [](KeyMissing =>
          /\ events = << >> /\ generatorCalls = 0 /\ inFlight = 0
          /\ pc \in {"Idle", "Failed"}
          /\ pc = "Failed" => error.kind = MissingKeyError)
  /\ [](~KeyMissing => error.kind # MissingKeyError)
  /\ [][(pc = "Idle" /\ pc' # "Idle") =>
          IF KeyMissing THEN pc' = "Failed"
          ELSE pc' = "Calling" /\ Len(events') = 1]_vars

(* a stage function called on its own failed for the missing key *)
C9_Witness ==
  /\ KeyMissing /\ entry = "rewriteDocs"
  /\ pc = "Failed" /\ error.kind = MissingKeyError /\ events = << >>

(* C10: every generator invocation is made with the stage name, prompt,
   model and tier of the latest trace; a trace is emitted exactly with the
   first invocation of a stage call; analyzeApplication returns after 3
   traces, or 4 with a correction, in stage order, all with the tier and
   model it reports. *)
C10_TracePerStageCall ==
  /\ [](/\ generatorCalls > 0 =>
             events # << >> /\ request = events[Len(events)]
        /\ generatorCalls >= Len(events)
        /\ (pc = "Done" /\ entry = "analyzeApplication") =>
             /\ Len(events) = 3 + Cardinality(CorrectionEvents)
             /\ InAnalyzeOrder
             /\ \A i \in 1..Len(events) :
                  /\ events[i].tier = result.tier
                  /\ events[i].model = result.modelName)
  /\ [][/\ events' # events =>
             /\ Len(events') = Len(events) + 1
             /\ SubSeq(events', 1, Len(events)) = events
             /\ generatorCalls' = generatorCalls + 1
             /\ callInvocations' = 1
        /\ generatorCalls' # generatorCalls =>
             /\ generatorCalls' = generatorCalls + 1
             /\ callInvocations' = 1 <=> events' # events]_vars

(* analyzeApplication returned after a correction call that was retried *)
C10_Witness ==
  /\ pc = "Done" /\ entry = "analyzeApplication"
  /\ Len(events) = 4 /\ callInvocations = 2 /\ call.correction

(* the coverage of the sanitized job description by the extracted facts *)
Coverage == computeAtsCoverage(sanitizedInput.jobDescription, extracted.resumeFacts)

(* C13: the keywordCoverage and hardRequirementsMissing of a result that
   analyzeApplication returns are computeAtsCoverage of the sanitized job
   description and the resume facts of the extract stage; whatever the
   score and rewrite stages returned, two runs that agree on these two
   agree on the two fields. *)
C13_CoverageRecomputed ==
  (pc = "Done" /\ entry = "analyzeApplication") =>
    /\ result.keywordCoverage = Coverage.keywordCoverage
    /\ result.hardRequirementsMissing = Coverage.hardRequirementsMissing

(* a run returned a coverage with a matched and a missing keyword, after
   the score stage had named its own missing keywords *)
C13_Witness ==
  /\ pc = "Done" /\ entry = "analyzeApplication"
  /\ result.keywordCoverage.matched # << >>
  /\ result.keywordCoverage.missing # << >>
  /\ result.improvements # << >>
  /\ result.improvements[1].evidence.missingKeywords # << >>

(* the snippet occurs in the text, compared as existsInSource compares *)
OccursIn(snippet, text) == existsInSource(snippet, text)

(* C14: in a result that analyzeApplication returns, every resumeQuote of
   every improvement occurs in the resume or in the cover letter, and
   every jdQuote and missingKeyword occurs in the job description. *)
C14_EvidenceFromSource ==
  (pc = "Done" /\ entry = "analyzeApplication") =>
    \A i \in 1..Len(result.improvements) :
      LET evidence == result.improvements[i].evidence IN
      /\ \A q \in Range(evidence.resumeQuotes) :
            \/ OccursIn(q, sanitizedInput.resumeContent)
            \/ OccursIn(q, sanitizedInput.coverLetterContent)
      /\ \A q \in Range(evidence.jdQuotes) :
            OccursIn(q, sanitizedInput.jobDescription)
      /\ \A q \in Range(evidence.missingKeywords) :
            OccursIn(q, sanitizedInput.jobDescription)

(* C21: when analyzeApplication fails because the corrected draft is still
   invalid, the error names what validateDraft found in that draft: the
   unauthorized numbers, the PII issues and the unresolved placeholders. *)
C21_FailureNamesViolation ==
  (pc = "Failed" /\ entry = "analyzeApplication" /\ error.kind = ValidationError) =>
    /\ error.detail.unauthorizedNumbers = validation.unauthorizedNumbers
    /\ error.detail.unauthorizedPiiIssues = validation.unauthorizedPiiIssues
    /\ error.detail.unresolvedPlaceholders = validation.unresolvedPlaceholders

(* C22: every check of validateDraft is made on the draft with the known
   placeholders replaced by their originals: the unauthorized numbers, the
   PII issues and the unresolved placeholders it reports are those of that
   text, and the text that the rewrite stage returns is that text. *)
C22_ValidatedAfterReinsertion ==
  (draftsReceived > 0 /\ Len(RewriteEntries) > 0) =>
    LET checked == validation.correctedDraft IN
    /\ validation.unauthorizedNumbers =
         findUnauthorizedNumbersForRewrite(checked, RewriteVault)
    /\ validation.unauthorizedPiiIssues =
         findUnauthorizedPii(DraftText(checked), RewriteEntries)
    /\ validation.unresolvedPlaceholders =
         findUnresolvedPiiPlaceholders(DraftText(checked), RewriteEntries)
    /\ pc = "Done" =>
         /\ result.optimizedResume = checked.optimizedResume
         /\ result.optimizedCoverLetter = checked.optimizedCoverLetter

(* the draft keeps placeholders of the run and holds nothing else that a
   check could object to: no other digit, no PII value, no other
   placeholder *)
KeepsPlaceholders(draft, ents) ==
  LET text == DraftText(draft)
      known == Range(PlaceholdersOf(ents))
  IN /\ \E i \in 1..Len(text) : text[i] \in known
     /\ \A i \in 1..Len(text) :
          \/ text[i] \in known
          \/ text[i].k = "str" /\ NumberTokensOf(text[i]) = << >>
     /\ detectPii(text) = << >>

(* C23: in privacy mode a first draft that keeps the known placeholders
   and holds no other digit, no PII value and no unknown placeholder is
   valid whatever the metrics vault holds: no correction call is made for
   it, so the first draft kept for a correction is never such a draft. *)
C23_PlaceholdersPass ==
  (entry = "analyzeApplication" /\ call.correction) =>
    ~KeepsPlaceholders(firstDraft, redactionEntries)

(* C25: whatever JSON values the generator returned, the result that
   analyzeApplication assembles from the normalized stage outputs passes
   validateAnalysisResultSchema: no run fails with the schema error, a
   returned result is valid, and a step in which the rewrite stage accepts
   a draft ends the run in Done. *)
C25_AssemblyAlwaysValid ==
  /\ [](error.kind # SchemaError)
  /\ []((pc = "Done" /\ entry = "analyzeApplication") =>
          validateAnalysisResultSchema(JsonOf(result)).valid)
  /\ [][(entry = "analyzeApplication" /\ draftsReceived' = draftsReceived + 1
         /\ validation'.isValid) => pc' = "Done"]_vars

(* a result was returned although the score response held strings where
   numbers, a category and a language are declared *)
C25_Witness ==
  /\ pc = "Done" /\ entry = "analyzeApplication"
  /\ result.jobFitScore = JNull /\ result.scoreBreakdown.baseline = JNull
  /\ ~result.overallFeedback.null
  /\ result.languageDetected = Null
  /\ result.improvements # << >>
  /\ result.improvements[1].category = "critical"
  /\ ~result.recruiterNotes.null

(* what every step of a run that is not asleep changes: where the run
   stands, the generator invocations made, the drafts received *)
progress == <<pc, generatorCalls, draftsReceived>>

(* A run that is not asleep proceeds: the synchronous code up to the first
   await runs (pc = "Idle"), the awaited generator invocation returns or
   throws (pc = "Calling").  Of the step only what progress reads is told,
   for the step is enabled exactly where pc is one of the two. *)
Proceeds ==
  /\ pc \in {"Idle", "Calling"}
  /\ pc' \in {"Calling", "Sleeping", "Done", "Failed"}
  /\ generatorCalls' \in {generatorCalls, generatorCalls + 1}
  /\ draftsReceived' \in {draftsReceived, draftsReceived + 1}

(* the run under the proviso that every generator invocation eventually
   returns or throws; the timer of sleep fires *)
SpecLive == Spec /\ WF_progress(Proceeds) /\ WF_vars(BackoffEnds)

(* C26: provided every generator invocation eventually returns or throws,
   every run of analyzeApplication eventually ends in Done or Failed, with
   at most 4 stage calls, 12 generator invocations and 8 backoff sleeps;
   a sleep starts only after a thrown transient error of the first or the
   second attempt of a stage call, never after the final attempt or a
   non-transient error. *)
C26_RunEnds ==
  /\ (entry = "analyzeApplication") ~> (pc \in {"Done", "Failed"})
  /\ [](entry = "analyzeApplication" =>
          /\ Len(events) <= 4
          /\ generatorCalls <= 12
          /\ sleeps <= 8
          /\ callInvocations <= 3)
  /\ [][sleeps' # sleeps =>
          /\ sleeps' = sleeps + 1
          /\ pc' = "Sleeping"
          /\ settled'.how = "threw"
          /\ TransientByPolicy(settled'.error)
          /\ callInvocations < 3]_vars
  /\ [][pc \notin {"Done", "Failed"}]_vars
  /\ [][(pc \in {"Idle", "Calling"}) => <<Proceeds>>_progress]_vars

(* a run that ended with a result after four stage calls of three
   invocations each, two backoff sleeps in every stage call *)
C26_Witness ==
  /\ entry = "analyzeApplication" /\ pc = "Done"
  /\ Len(events) = 4 /\ generatorCalls = 12 /\ sleeps = 8

(***************************************************************************)
(* The exported functions called on their own.  A behaviour picks a        *)
(* function and an argument; the step applies the function.  No run of     *)
(* the pipeline exists meanwhile.                                          *)
(***************************************************************************)
MaxTextLen == 2

NoRun ==
  /\ entry = "" /\ data = << >>
  /\ runtimeOptions = [modelMode |-> "mock", apiKey |-> ""] /\ envKey = ""
  /\ scenario = "drafts"
  /\ BeforeCall

mainVars ==
  <<entry, data, runtimeOptions, envKey, pc, client, sanitizedInput,
    redactionEntries, tierConfig, call, attempt, caught, retryCount,
    firstDraft, events, callInvocations, generatorCalls, request, inFlight,
    settled, draftsReceived, sleeps, result, error, scenario, extracted,
    scored, validation>>

(* the function returns value *)
Returns(name, value) ==
  /\ fnName = name /\ ~fnApplied
  /\ fnApplied' = TRUE
  /\ fnOutput' = value
  /\ UNCHANGED <<fnName, fnInput, mainVars, twoVars>>

PiiAlphabet ==
  {Str(EmailA), Str(EmailB), Str(EmailZ), Str(PhoneA), Label("PERSONAL_ID"),
   Str(IdA), Str(Word), Str(IdB), Label("BIRTH_DATE"), Str(DateB)}

(* applications with privacy mode on *)
PrivateInputs ==
  {Input(<<Str(Word)>>, resume, cover, "balanced", TRUE, Vault("otherMetrics", metrics)) :
     resume \in TextsUpTo(PiiAlphabet, MaxTextLen),
     cover \in TextsUpTo(PiiAlphabet, 1),
     metrics \in {<< >>, <<Str(EmailA)>>}}

ApplyPrepare ==
  Returns("prepareApplicationForGemini", prepareApplicationForGemini(fnInput))

Prepared == fnName = "prepareApplicationForGemini" /\ fnApplied

(* C11: redacting a text field and restoring it with the entries of the run
   gives the field back exactly, whatever spellings of one value occur;
   restoring is idempotent, and entries that do not occur in a text do not
   change the result. *)
C11_RoundTrip ==
  Prepared =>
    \A f \in Range(TEXT_FIELDS) :
      LET redacted == Text(fnOutput.sanitizedInput[f])
          ents == fnOutput.redactionEntries
          occurring == SelectSeq(ents, LAMBDA e : e.placeholder \in Range(redacted.text))
          restored == reinsertRedactedPii(redacted, ents)
      IN /\ restored = Text(fnInput[f])
         /\ reinsertRedactedPii(restored, ents) = restored
         /\ reinsertRedactedPii(redacted, occurring) = restored

(* the key under which register files an entry *)
KeyOf(e) == <<e.type, normalizePiiKey(e.type, e.original)>>

(* the texts of an application in the order in which they are redacted *)
TextsInOrder(inp) ==
  [i \in 1..(Len(TEXT_FIELDS) + Len(METRIC_FIELDS)) |->
     IF i <= Len(TEXT_FIELDS) THEN inp[TEXT_FIELDS[i]]
     ELSE inp.metricsVault[METRIC_FIELDS[i - Len(TEXT_FIELDS)]]]

(* the places <<text, position>> at which a placeholder stands *)
PlacesOf(texts, placeholder) ==
  {<<t, i>> \in (1..Len(texts)) \X (1..(MaxTextLen + 1)) :
     i <= Len(texts[t]) /\ texts[t][i] = placeholder}

Before(a, b) == a[1] < b[1] \/ (a[1] = b[1] /\ a[2] < b[2])

FirstPlace(texts, placeholder) ==
  CHOOSE a \in PlacesOf(texts, placeholder) :
    \A b \in PlacesOf(texts, placeholder) : a = b \/ Before(a, b)

(* C12: in the entries of one preparation no two entries have the same
   (type, normalized value) key or the same placeholder; every redacted
   value carries the placeholder of the entry with its key; the entries of
   a type are numbered 1, 2, ... in the order of first occurrence. *)
C12_StablePlaceholders ==
  Prepared =>
    LET ents == fnOutput.redactionEntries
        before == TextsInOrder(fnInput)
        after == TextsInOrder(fnOutput.sanitizedInput)
    IN /\ \A i, j \in 1..Len(ents) :
            i # j => KeyOf(ents[i]) # KeyOf(ents[j])
                     /\ ents[i].placeholder # ents[j].placeholder
       /\ \A i \in 1..Len(ents) :
            /\ ents[i].placeholder =
                 Ph(ents[i].type,
                    Cardinality({j \in 1..i : ents[j].type = ents[i].type}))
            /\ PlacesOf(after, ents[i].placeholder) # {}
       /\ \A i, j \in 1..Len(ents) :
            (i < j /\ ents[i].type = ents[j].type) =>
              Before(FirstPlace(after, ents[i].placeholder),
                     FirstPlace(after, ents[j].placeholder))
       /\ \A t \in 1..Len(after) : \A i \in 1..Len(after[t]) :
            after[t][i] # before[t][i] =>
              \E e \in 1..Len(ents) :
                /\ after[t][i] = ents[e].placeholder
                /\ before[t][i].k = "str"
                /\ KeyOf(ents[e]) = <<ents[e].type,
                                      normalizePiiKey(ents[e].type, before[t][i].s)>>

(* two emails were numbered, and one value was met again in another field *)
C12_Witness ==
  /\ Prepared
  /\ Cardinality({i \in 1..Len(fnOutput.redactionEntries) :
                    fnOutput.redactionEntries[i].type = "EMAIL"}) = 2
  /\ Ph("EMAIL", 1) \in Range(fnOutput.sanitizedInput.resumeContent)
  /\ Ph("EMAIL", 1) \in Range(fnOutput.sanitizedInput.coverLetterContent)
  /\ Ph("PHONE", 1) \in Range(fnOutput.sanitizedInput.resumeContent)

(* the fields that prepareApplicationForGemini redacts, with their texts *)
RedactedTexts(inp) ==
  {inp[f] : f \in Range(TEXT_FIELDS)}
  \cup {inp.metricsVault[f] : f \in Range(METRIC_FIELDS)}

(* C24: a value redacted as PERSONAL_ID or BIRTH_DATE is not taken for a
   PHONE: no sanitized field holds a PHONE placeholder where the input has
   a labeled value, and findUnauthorizedPii reports no issue for any
   sanitized field with the originals reinserted, judged against the
   entries of the run. *)
C24_LabeledNeverPhone ==
  Prepared =>
    LET ents == fnOutput.redactionEntries IN
    /\ \A f \in Range(TEXT_FIELDS) :
         \A i \in 1..Len(fnInput[f]) :
           \A type \in {"BIRTH_DATE", "PERSONAL_ID"} :
             PassMatches(type, fnInput[f], i) =>
               /\ fnOutput.sanitizedInput[f][i].k = "ph"
               /\ fnOutput.sanitizedInput[f][i].s = type
    /\ \A text \in RedactedTexts(fnOutput.sanitizedInput) :
         findUnauthorizedPii(ReinsertFrom(text, ents, 1), ents) = << >>

(***************************************************************************)
(* documentService.ts: the retrieval chunks.  Here a text is its words,    *)
(* each with the white space before it, its length in characters and       *)
(* whether it ends a sentence with a full stop, and the white space after  *)
(* the last word.  Every word after the first has white space before it.   *)
(***************************************************************************)
DOC_APPROX_CHARS_PER_TOKEN == 4
DEFAULT_MAX_CHARS == 900
DEFAULT_OVERLAP == 140
MIN_SPLIT_POINT == 220

RETRIEVAL_SOURCES ==
  <<"jobDescription", "resumeContent", "coverLetterContent", "companyInfo",
    "additionalContext">>

SOURCE_PRIORITY(source) ==
  CASE source = "jobDescription" -> 5
    [] source = "resumeContent" -> 4
    [] source = "coverLetterContent" -> 3
    [] source = "companyInfo" -> 2
    [] source = "additionalContext" -> 1

Min(a, b) == IF a < b THEN a ELSE b

Max(a, b) == IF a > b THEN a ELSE b

(* a slip: the white space around the text is kept *)
normalizeText_NoTrim(value) ==
  [words |-> [i \in 1..Len(value.words) |->
                [value.words[i] EXCEPT !.lead = IF i = 1 THEN @ ELSE 1]],
   trail |-> value.trail]

(* normalizeText: every run of white space becomes one space, and the
   white space around the text is removed *)
normalizeText(value) ==
  [words |-> [i \in 1..Len(value.words) |->
                [value.words[i] EXCEPT !.lead = IF i = 1 THEN 0 ELSE 1]],
   trail |-> 0]

(* the characters of the first n words with the white space before them *)
RECURSIVE LengthUpTo(_, _)
LengthUpTo(words, n) ==
  IF n = 0 THEN 0
  ELSE LengthUpTo(words, n - 1) + words[n].lead + words[n].len

(* text.length *)
TextLength(text) == LengthUpTo(text.words, Len(text.words)) + text.trail

(* the index of the first character of word i *)
WordStart(text, i) == LengthUpTo(text.words, i - 1) + text.words[i].lead

(* the indices of the white space characters *)
SpacePositions(text) ==
  UNION {(WordStart(text, i) - text.words[i].lead)..(WordStart(text, i) - 1) :
           i \in 1..Len(text.words)}
  \cup ((TextLength(text) - text.trail)..(TextLength(text) - 1))

(* the indices at which ". " stands *)
SentenceEnds(text) ==
  {WordStart(text, i) + text.words[i].len - 1 :
     i \in {j \in 1..Len(text.words) :
              text.words[j].dot /\ (j < Len(text.words) \/ text.trail > 0)}}

(* lastIndexOf in text.slice(start, end) of what stands at the positions *)
LastIndexOf(positions, start, end, width) ==
  LET found == {p - start : p \in {q \in positions : q >= start /\ q + width <= end}}
  IN IF found = {} THEN -1 ELSE CHOOSE p \in found : \A q \in found : q <= p

(* findSplitPoint; a normalized text holds no line break *)
findSplitPoint(text, start, end) ==
  LET punctuation == LastIndexOf(SentenceEnds(text), start, end, 2)
      newline == -1
      whitespace == LastIndexOf(SpacePositions(text), start, end, 1)
  IN IF punctuation >= MIN_SPLIT_POINT THEN start + punctuation + 1
     ELSE IF newline >= MIN_SPLIT_POINT THEN start + newline + 1
     ELSE IF whitespace >= MIN_SPLIT_POINT THEN start + whitespace
     ELSE end

(* normalized.slice(start, end).trim().length *)
TrimmedLength(text, start, end) ==
  LET inside == {i \in 1..Len(text.words) :
                   /\ WordStart(text, i) < end
                   /\ WordStart(text, i) + text.words[i].len > start}
      first == CHOOSE i \in inside : \A j \in inside : i <= j
      last == CHOOSE i \in inside : \A j \in inside : j <= i
  IN IF inside = {} THEN 0
     ELSE Min(WordStart(text, last) + text.words[last].len, end)
          - Max(WordStart(text, first), start)

(* estimateTokens of a text of the length *)
estimateTokens(length) ==
  Max(1, (length + DOC_APPROX_CHARS_PER_TOKEN - 1) \div DOC_APPROX_CHARS_PER_TOKEN)

(* a slip: the indexes of the ids count from 1 *)
ChunkId_OneBased(source, index, start, end) ==
  [source |-> source, index |-> index + 1, start |-> start, end |-> end]

(* the id source:index:start-end *)
ChunkId(source, index, start, end) ==
  [source |-> source, index |-> index, start |-> start, end |-> end]

(* a slip: the next start is the end less the overlap, whatever it is *)
Iteration_NoProgress(source, normalized, start, index, maxChars, overlap) ==
  LET length == TextLength(normalized)
      hardEnd == Min(start + maxChars, length)
      splitPoint == IF hardEnd < length
                    THEN findSplitPoint(normalized, start, hardEnd)
                    ELSE hardEnd
      end == Max(splitPoint, Min(start + MIN_SPLIT_POINT, length))
      chunkLength == TrimmedLength(normalized, start, end)
      chunk == [id |-> ChunkId(source, index, start, end), source |-> source,
                start |-> start, end |-> end,
                tokenEstimate |-> estimateTokens(chunkLength)]
  IN [pushed |-> IF chunkLength > 0 THEN <<chunk>> ELSE << >>,
      breaks |-> end >= length,
      nextStart |-> end - overlap]

(* one pass through the body of the while loop of chunkTextForRetrieval:
   the chunks it pushes, whether it breaks, and the next start *)
Iteration(source, normalized, start, index, maxChars, overlap) ==
  LET length == TextLength(normalized)
      hardEnd == Min(start + maxChars, length)
      splitPoint == IF hardEnd < length
                    THEN findSplitPoint(normalized, start, hardEnd)
                    ELSE hardEnd
      end == Max(splitPoint, Min(start + MIN_SPLIT_POINT, length))
      chunkLength == TrimmedLength(normalized, start, end)
      chunk == [id |-> ChunkId(source, index, start, end), source |-> source,
                start |-> start, end |-> end,
                tokenEstimate |-> estimateTokens(chunkLength)]
  IN [pushed |-> IF chunkLength > 0 THEN <<chunk>> ELSE << >>,
      breaks |-> end >= length,
      nextStart |-> Max(end - overlap, start + 1)]

(* the loop of chunkTextForRetrieval *)
RECURSIVE ChunksFrom(_, _, _, _, _, _)
ChunksFrom(source, normalized, start, index, maxChars, overlap) ==
  LET it == Iteration(source, normalized, start, index, maxChars, overlap)
  IN IF start >= TextLength(normalized) THEN << >>
     ELSE it.pushed
          \o (IF it.breaks THEN << >>
              ELSE ChunksFrom(source, normalized, it.nextStart,
                              index + Len(it.pushed), maxChars, overlap))

chunkTextForRetrieval(source, text, maxChars, overlap) ==
  LET normalized == normalizeText(text)
  IN IF normalized.words = << >> THEN << >>
     ELSE ChunksFrom(source, normalized, 0, 0, maxChars, overlap)

RECURSIVE FlatMapSources(_, _, _, _)
FlatMapSources(input, sources, maxChars, overlap) ==
  IF sources = << >> THEN << >>
  ELSE chunkTextForRetrieval(Head(sources), input[Head(sources)], maxChars, overlap)
       \o FlatMapSources(input, Tail(sources), maxChars, overlap)

(* buildRetrievalChunks(input): its callers leave maxChars and overlap to
   their defaults *)
buildRetrievalChunks(input) ==
  FlatMapSources(input, RETRIEVAL_SOURCES, DEFAULT_MAX_CHARS, DEFAULT_OVERLAP)

(* a slip: the length bonus is not capped *)
scoreChunk_Uncapped(chunk) ==
  200 * SOURCE_PRIORITY(chunk.source) + chunk.tokenEstimate

(* scoreChunk, times 200 *)
scoreChunk(chunk) ==
  200 * SOURCE_PRIORITY(chunk.source) + Min(chunk.tokenEstimate, 200)

(* the decimal digits of a number *)
RECURSIVE Digits(_)
Digits(n) == IF n < 10 THEN <<n>> ELSE Digits(n \div 10) \o <<n % 10>>

(* the characters of an id: letters as their rank in the alphabet, the
   separators ":" and "-" below every digit *)
IdCharacters(id) ==
  LET name == CASE id.source = "additionalContext" -> <<11>>
                [] id.source = "companyInfo" -> <<13, 15>>
                [] id.source = "coverLetterContent" -> <<13, 16>>
                [] id.source = "jobDescription" -> <<20>>
                [] id.source = "resumeContent" -> <<28>>
  IN name \o <<-1>> \o Digits(id.index) \o <<-1>> \o Digits(id.start)
          \o <<-1>> \o Digits(id.end)

(* left.localeCompare(right) of two sequences of characters *)
RECURSIVE localeCompare(_, _)
localeCompare(left, right) ==
  IF left = << >> /\ right = << >> THEN 0
  ELSE IF left = << >> THEN -1
  ELSE IF right = << >> THEN 1
  ELSE IF Head(left) < Head(right) THEN -1
  ELSE IF Head(left) > Head(right) THEN 1
  ELSE localeCompare(Tail(left), Tail(right))

(* the comparator of selectRetrievalChunks *)
compareChunks(left, right) ==
  LET scoreDelta == scoreChunk(right) - scoreChunk(left)
  IN IF scoreDelta # 0 THEN scoreDelta
     ELSE localeCompare(IdCharacters(left.id), IdCharacters(right.id))

(* Array.prototype.sort with the comparator: a stable sort *)
RECURSIVE SortChunks(_)
SortChunks(chunks) ==
  IF chunks = << >> THEN << >>
  ELSE LET sorted == SortChunks(SubSeq(chunks, 1, Len(chunks) - 1))
           last == chunks[Len(chunks)]
           at == Cardinality({i \in 1..Len(sorted) : compareChunks(sorted[i], last) <= 0})
       IN SubSeq(sorted, 1, at) \o <<last>> \o SubSeq(sorted, at + 1, Len(sorted))

selectRetrievalChunks(input, limit) ==
  LET sorted == SortChunks(buildRetrievalChunks(input))
  IN SubSeq(sorted, 1, Min(limit, Len(sorted)))

selectRetrievalChunkIds(input, limit) ==
  LET selected == selectRetrievalChunks(input, limit)
  IN [i \in 1..Len(selected) |-> selected[i].id]

(* the words of the texts that are chunked *)
MaxWords == 2

WordLengths == {120, 400, 900}

PlainWords == [len : WordLengths, dot : BOOLEAN]

RECURSIVE PlainTexts(_)
PlainTexts(n) ==
  IF n = 0 THEN {<< >>}
  ELSE PlainTexts(n - 1)
       \cup {t \o <<w>> : t \in {u \in PlainTexts(n - 1) : Len(u) = n - 1},
                          w \in PlainWords}

(* the ways white space is laid around the words *)
Spacings == {[lead |-> 0, inner |-> 1, trail |-> 0],
             [lead |-> 2, inner |-> 1, trail |-> 2],
             [lead |-> 0, inner |-> 3, trail |-> 0]}

SpacedText(plain, spacing) ==
  [words |-> [i \in 1..Len(plain) |->
                [lead |-> IF i = 1 THEN spacing.lead ELSE spacing.inner,
                 len |-> plain[i].len, dot |-> plain[i].dot]],
   trail |-> IF plain = << >> THEN spacing.lead + spacing.trail ELSE spacing.trail]

RetrievalInput(jd, resume, spacing) ==
  [jobDescription |-> SpacedText(jd, spacing),
   resumeContent |-> SpacedText(resume, spacing),
   coverLetterContent |-> SpacedText(<<[len |-> 900, dot |-> FALSE]>>, spacing),
   companyInfo |-> SpacedText(<< >>, spacing),
   additionalContext |-> SpacedText(<<[len |-> 120, dot |-> TRUE]>>, spacing)]

(* two applications whose texts have the same words, and a limit *)
RetrievalInputs ==
  {[left |-> RetrievalInput(jd, resume, a), right |-> RetrievalInput(jd, resume, b),
    limit |-> limit] :
     jd \in PlainTexts(MaxWords),
     resume \in {<< >>, <<[len |-> 400, dot |-> TRUE], [len |-> 900, dot |-> FALSE]>>},
     a \in Spacings, b \in Spacings, limit \in {2, 8}}

ApplySelectRetrievalChunkIds ==
  Returns("selectRetrievalChunkIds",
          [left |-> selectRetrievalChunkIds(fnInput.left, fnInput.limit),
           right |-> selectRetrievalChunkIds(fnInput.right, fnInput.limit)])

Selected == fnName = "selectRetrievalChunkIds" /\ fnApplied

(* C15: selectRetrievalChunkIds returns the same ordered ids when called
   again, and the same for two inputs that differ only in leading,
   trailing or repeated white space; the ids of all chunks are pairwise
   distinct, and no two chunks compare equal, so the order by score
   descending, then id ascending, is total and the ids returned are in it. *)
C15_RetrievalDeterministic ==
  Selected =>
    LET chunks == buildRetrievalChunks(fnInput.left)
        selected == selectRetrievalChunks(fnInput.left, fnInput.limit)
    IN /\ fnOutput.left = selectRetrievalChunkIds(fnInput.left, fnInput.limit)
       /\ fnOutput.left = fnOutput.right
       /\ \A i, j \in 1..Len(chunks) :
            i # j => /\ chunks[i].id # chunks[j].id
                     /\ compareChunks(chunks[i], chunks[j]) # 0
                     /\ (compareChunks(chunks[i], chunks[j]) < 0
                           <=> compareChunks(chunks[j], chunks[i]) > 0)
       /\ \A i, j \in 1..Len(selected) :
            i < j => \/ scoreChunk(selected[i]) > scoreChunk(selected[j])
                     \/ /\ scoreChunk(selected[i]) = scoreChunk(selected[j])
                        /\ localeCompare(IdCharacters(selected[i].id),
                                         IdCharacters(selected[j].id)) < 0
       /\ \A c \in Range(chunks) :
            c.id \notin Range(fnOutput.left) =>
              /\ Len(selected) = fnInput.limit
              /\ compareChunks(selected[Len(selected)], c) < 0

(* two inputs that differ in white space, a job description of several
   chunks that tie in score, and more chunks than the limit *)
C15_Witness ==
  /\ Selected
  /\ fnInput.left # fnInput.right
  /\ Len(fnOutput.left) = 2
  /\ Len(buildRetrievalChunks(fnInput.left)) > 2
  /\ fnOutput.left[1].source = "jobDescription"
  /\ fnOutput.left[2].source = "jobDescription"
  /\ LET chunks == buildRetrievalChunks(fnInput.left)
     IN scoreChunk(chunks[1]) = scoreChunk(chunks[2])

(* the drafts and the vaults that the metrics guard is called on *)
GuardAlphabet ==
  {Str(Word), Num("18"), Num("18.0"), Num("42"), Num("2,300"), ListNum("42"),
   ListNum("18")}

GuardInputs ==
  {[rewrite |-> [optimizedResume |-> r, optimizedCoverLetter |-> c],
    metricsVault |-> Vault("projectImpact", v)] :
     r \in {Null} \cup {Text(t) : t \in TextsUpTo(GuardAlphabet, MaxTextLen)},
     c \in {Null, Text(<<ListNum("42")>>), Text(<<Num("2300"), Num("42")>>)},
     v \in TextsUpTo(GuardAlphabet, 1)}

ApplyFindUnauthorizedNumbers ==
  Returns("findUnauthorizedNumbersForRewrite",
          findUnauthorizedNumbersForRewrite(fnInput.rewrite, fnInput.metricsVault))

Guarded == fnName = "findUnauthorizedNumbersForRewrite" /\ fnApplied

(* the combined text of the draft *)
OutputText ==
  OrEmpty(fnInput.rewrite.optimizedResume)
    \o OrEmpty(fnInput.rewrite.optimizedCoverLetter)

AllowedNumbers == Range(getAllowedMetricNumbers(fnInput.metricsVault))

NoNumberTwice(list) == \A i, j \in 1..Len(list) : list[i] = list[j] => i = j

(* C16 as stated: findUnauthorizedNumbersForRewrite returns exactly the
   normalized numeric tokens of the combined text that are not in
   getAllowedMetricNumbers(vault), each once, wherever they stand. *)
C16_EveryNumberJudged ==
  Guarded =>
    /\ Range(fnOutput) = NumbersOf(OutputText) \ AllowedNumbers
    /\ NoNumberTwice(fnOutput)

(* C16 amended: it returns exactly the normalized numeric tokens of the
   combined text from which the list numbers at the start of a line have
   been removed, that are not in getAllowedMetricNumbers(vault), each
   once; a number in the allowed set is never returned. *)
C16_NumbersOutsideListsJudged ==
  Guarded =>
    /\ Range(fnOutput) = NumbersOf(StripListNumbers(OutputText)) \ AllowedNumbers
    /\ NoNumberTwice(fnOutput)
    /\ Range(fnOutput) \cap AllowedNumbers = {}

(* a number outside the vault stood twice in the text and was returned,
   another spelling of a vault number was not, and a list number was
   passed over *)
C16_Witness ==
  /\ Guarded
  /\ fnOutput = <<42>>
  /\ Len(SelectSeq(OutputText, LAMBDA tok : tok = Num("42"))) = 2
  /\ Num("2300") \in Range(OutputText) /\ 2300 \in AllowedNumbers
  /\ ListNum("42") \in Range(OutputText)

(* types.ts: the declared type of every field of AnalysisResult, by path *)
DeclaredType(path) ==
  CASE path \in {<<"scoreBreakdown">>, <<"keywordCoverage">>, <<"analysisTrace">>,
                 <<"improvements", "item">>, <<"improvements", "evidence">>} -> "object"
    [] path \in {<<"scoreBreakdown", "baseline">>, <<"scoreBreakdown", "enhanced">>,
                 <<"jobFitScore">>} -> "number|null"
    [] path \in {<<"scoreBreakdown", "explanation">>, <<"overallFeedback">>,
                 <<"optimizedResume">>, <<"optimizedCoverLetter">>,
                 <<"portfolioAdvice">>, <<"recruiterNotes">>,
                 <<"improvements", "point">>, <<"improvements", "impact">>} -> "string|null"
    [] path = <<"languageDetected">> -> "'English'|'German'|null"
    [] path \in {<<"evidenceSnippetWordLimit">>, <<"analysisTrace", "retries">>} -> "number"
    [] path \in {<<"keywordCoverage", "matched">>, <<"keywordCoverage", "missing">>,
                 <<"keywordCoverage", "partial">>, <<"hardRequirementsMissing">>,
                 <<"analysisTrace", "retrievalChunkIds">>,
                 <<"improvements", "evidence", "resumeQuotes">>,
                 <<"improvements", "evidence", "jdQuotes">>,
                 <<"improvements", "evidence", "missingKeywords">>} -> "string[]"
    [] path = <<"improvements">> -> "Improvement[]"
    [] path = <<"improvements", "category">> -> "'critical'|'optional'"
    [] path = <<"analysisTrace", "retrievalTrace">> -> "trace[]"
    [] OTHER -> "string"

(* the kinds of value that a type admits *)
Admits(type, kind) ==
  CASE type = "object" -> kind = "object"
    [] type = "number|null" -> kind \in {"number", "null"}
    [] type = "string|null" ->
         kind \in {"null", "string", "English", "German", "French", "critical", "optional"}
    [] type = "'English'|'German'|null" -> kind \in {"English", "German", "null"}
    [] type = "number" -> kind = "number"
    [] type = "string[]" -> kind = "strings"
    [] type = "Improvement[]" -> kind \in {"strings", "mixed", "traces", "array"}
    [] type = "'critical'|'optional'" -> kind \in {"critical", "optional"}
    [] type = "trace[]" -> kind = "traces"
    [] type = "string" ->
         kind \in {"string", "English", "German", "French", "critical", "optional"}

(* the validResult of the test, by kinds *)
GoodImprovement ==
  [kind |-> "object", point |-> "string", category |-> "critical", impact |-> "null",
   evidence |-> [kind |-> "object", resumeQuotes |-> "strings", jdQuotes |-> "strings",
                 missingKeywords |-> "strings"]]

ValidResult ==
  [kind |-> "object",
   scoreBreakdown |-> [kind |-> "object", baseline |-> "number", enhanced |-> "null",
                       explanation |-> "string"],
   jobFitScore |-> "number", overallFeedback |-> "string",
   improvements |-> [kind |-> "array", items |-> <<GoodImprovement>>],
   optimizedResume |-> "string", optimizedCoverLetter |-> "null",
   languageDetected |-> "English", portfolioAdvice |-> "string",
   recruiterNotes |-> "string", evidenceSnippetWordLimit |-> "number",
   keywordCoverage |-> [kind |-> "object", matched |-> "strings", missing |-> "strings",
                        partial |-> "strings"],
   hardRequirementsMissing |-> "strings",
   analysisTrace |-> [kind |-> "object", inputHash |-> "string",
                      retrievalChunkIds |-> "strings", retrievalTrace |-> "traces",
                      modelName |-> "string", tier |-> "string", timestamp |-> "string",
                      retries |-> "number"]]

(* the fields outside improvements, by path *)
NestedFields(object) == (DOMAIN ValidResult[object]) \ {"kind"}

ObjectFields == {"scoreBreakdown", "keywordCoverage", "analysisTrace"}

FieldPaths ==
  {<<f>> : f \in (DOMAIN ValidResult) \ {"kind"}}
  \cup UNION {{<<o, f>> : f \in NestedFields(o)} : o \in ObjectFields}

(* the kind that stands at a path, "absent" under what is no object *)
KindAt(value, path) ==
  IF Len(path) = 1
  THEN (IF path[1] \in ObjectFields \cup {"improvements"}
        THEN value[path[1]].kind ELSE value[path[1]])
  ELSE IF isObject(value[path[1]].kind) THEN value[path[1]][path[2]] ELSE "absent"

(* a value of a wrong type for the field *)
WrongKind(path) ==
  CASE DeclaredType(path) \in {"number|null", "number"} -> "string"
    [] DeclaredType(path) = "'English'|'German'|null" -> "French"
    [] DeclaredType(path) = "string[]" -> "mixed"
    [] DeclaredType(path) = "trace[]" -> "mixed"
    [] DeclaredType(path) = "object" -> "null"
    [] DeclaredType(path) = "Improvement[]" -> "object"
    [] OTHER -> "number"

Spoil(value, path) ==
  IF Len(path) = 1
  THEN (IF path[1] \in ObjectFields \cup {"improvements"}
        THEN [value EXCEPT ![path[1]].kind = WrongKind(path)]
        ELSE [value EXCEPT ![path[1]] = WrongKind(path)])
  ELSE [value EXCEPT ![path[1]][path[2]] = WrongKind(path)]

RECURSIVE SpoilAll(_, _)
SpoilAll(value, paths) ==
  IF paths = {} THEN value
  ELSE LET p == CHOOSE q \in paths : TRUE
       IN SpoilAll(Spoil(value, p), paths \ {p})

MaxIllTyped == 2

(* the subsets of at most n elements *)
RECURSIVE SubsetsUpTo(_, _)
SubsetsUpTo(set, n) ==
  IF n = 0 THEN {{}}
  ELSE LET smaller == SubsetsUpTo(set, n - 1)
       IN smaller \cup {s \cup {e} : s \in smaller, e \in set}

(* improvements: none, a good one, and ill-typed ones after a good one *)
ImprovementLists ==
  {<< >>, <<GoodImprovement>>,
   <<GoodImprovement, [GoodImprovement EXCEPT !.kind = "string"]>>,
   <<[GoodImprovement EXCEPT !.point = "number", !.category = "French"],
     [GoodImprovement EXCEPT !.evidence.kind = "strings"]>>,
   <<GoodImprovement,
     [GoodImprovement EXCEPT !.impact = "boolean", !.evidence.jdQuotes = "mixed",
                             !.evidence.missingKeywords = "null"]>>}

SchemaInputs ==
  {[kind |-> "string"], [kind |-> "strings"]}
  \cup {SpoilAll([ValidResult EXCEPT !.improvements.items = items], paths) :
          items \in ImprovementLists,
          paths \in SubsetsUpTo(FieldPaths, MaxIllTyped)}

ApplyValidateSchema ==
  Returns("validateAnalysisResultSchema", validateAnalysisResultSchema(fnInput))

Validated == fnName = "validateAnalysisResultSchema" /\ fnApplied

(* the fields of an improvement, by path below the improvement *)
ImprovementPaths(improvement) ==
  IF ~isObject(improvement.kind) THEN {<<"improvements", "item">>}
  ELSE {<<"improvements", "point">>, <<"improvements", "category">>,
        <<"improvements", "impact">>, <<"improvements", "evidence">>}
       \cup (IF isObject(improvement.evidence.kind)
             THEN {<<"improvements", "evidence", f>> :
                     f \in {"resumeQuotes", "jdQuotes", "missingKeywords"}}
             ELSE {})

ImprovementKindAt(improvement, path) ==
  IF path = <<"improvements", "item">> THEN improvement.kind
  ELSE IF path = <<"improvements", "evidence">> THEN improvement.evidence.kind
  ELSE IF Len(path) = 3 THEN improvement.evidence[path[3]]
  ELSE improvement[path[2]]

(* the fields of a value that have not their declared type *)
IllTyped(value) ==
  IF ~isObject(value.kind) THEN {Err(<<"Result">>, -1)}
  ELSE {Err(p, -1) : p \in {q \in FieldPaths :
                             /\ KindAt(value, q) # "absent"
                             /\ ~Admits(DeclaredType(q), KindAt(value, q))}}
       \cup (IF ~IsArray(value.improvements.kind) THEN {}
             ELSE UNION {{Err(p, i - 1) :
                            p \in {q \in ImprovementPaths(value.improvements.items[i]) :
                                     ~Admits(DeclaredType(q),
                                             ImprovementKindAt(value.improvements.items[i], q))}} :
                           i \in 1..Len(value.improvements.items)})

(* C17: validateAnalysisResultSchema returns valid = TRUE exactly when
   every field of the AnalysisResult contract, the nested ones and
   languageDetected included, has its declared type, and exactly when
   errors is empty; for an invalid result errors names the path of every
   ill-typed field, each in an entry of its own. *)
C17_ValidIffWellTyped ==
  Validated =>
    /\ fnOutput.valid <=> IllTyped(fnInput) = {}
    /\ fnOutput.valid <=> fnOutput.errors = << >>
    /\ Range(fnOutput.errors) = IllTyped(fnInput)
    /\ Len(fnOutput.errors) = Cardinality(IllTyped(fnInput))

(* C17 without languageDetected: the same for every field but
   languageDetected, which the function does not look at. *)
C17_ValidIffCheckedFieldsWellTyped ==
  Validated =>
    LET illTyped == IllTyped(fnInput) \ {Err(<<"languageDetected">>, -1)}
    IN /\ fnOutput.valid <=> illTyped = {}
       /\ fnOutput.valid <=> fnOutput.errors = << >>
       /\ Range(fnOutput.errors) = illTyped
       /\ Len(fnOutput.errors) = Cardinality(illTyped)

(* a result with analysisTrace.retries and a second field ill-typed was
   rejected with an entry for each *)
C17_Witness ==
  /\ Validated
  /\ ~fnOutput.valid /\ Len(fnOutput.errors) >= 3
  /\ Err(<<"analysisTrace", "retries">>, -1) \in Range(fnOutput.errors)
  /\ \E e \in Range(fnOutput.errors) : e.index = 1

(* the applications whose tier is selected: documents at and around the
   limits, the word deep in one of the fields, every mode *)
DocLengths == {1, 2999, 3000, 4499, 4500, 9000, 9001}

TierInputs ==
  {[Input(jd, resume, cover, mode, FALSE, EmptyVault)
      EXCEPT !.additionalContext = context, !.companyInfo = company] :
     jd \in {<<Chars(n)>> : n \in DocLengths} \cup {<<Str(Deep)>>},
     resume \in {<<Chars(n)>> : n \in DocLengths} \cup {<<Str(Deep)>>},
     cover \in {<< >>, <<Chars(1)>>, <<Chars(3798)>>, <<Chars(3799)>>},
     mode \in {"fast", "balanced", "deep"},
     context \in {<< >>, <<Str(Deep)>>},
     company \in {<< >>, <<Str(Deep)>>}}

ApplySelectTier == Returns("selectTier", selectTier(fnInput))

Tiered == fnName = "selectTier" /\ fnApplied

(* the characters of all fields that selectTier counts *)
TotalChars(inp) ==
  TextLen(inp.jobDescription) + TextLen(inp.resumeContent)
    + TextLen(inp.coverLetterContent) + TextLen(inp.companyInfo)
    + TextLen(inp.additionalContext) + MetricsChars(inp.metricsVault)

EstimatedTokens(inp) == (TotalChars(inp) + 3) \div 4

(* a COMPLEX trigger of the claim applies to the application *)
ComplexTrigger(inp) ==
  \/ inp.analysisMode = "deep"
  \/ \E f \in {"additionalContext", "companyInfo", "jobDescription"} :
       Str(Deep) \in Range(inp[f])
  \/ TextLen(inp.jobDescription) > 9000
  \/ TextLen(inp.resumeContent) > 9000
  \/ TotalChars(inp) > 18000
  \/ EstimatedTokens(inp) > 4500

(* C18: selectTier returns COMPLEX when the mode is deep, or the
   additional context, company info or job description holds a deep
   phrase, or a length limit is exceeded (job description or resume over
   9000 characters, total over 18000, estimated tokens over 4500),
   whatever the other fields; and in no other case. *)
C18_ComplexOnTrigger ==
  Tiered => (fnOutput = "COMPLEX" <=> ComplexTrigger(fnInput))

(* a balanced application with both documents exactly at the limit is not
   COMPLEX *)
C18_Witness ==
  /\ Tiered
  /\ fnInput.analysisMode = "balanced"
  /\ TextLen(fnInput.jobDescription) = 9000
  /\ TextLen(fnInput.resumeContent) = 9000
  /\ TotalChars(fnInput) = 18000
  /\ fnOutput = "MEDIUM"

(* one more character makes the application COMPLEX *)
C18_WitnessOver ==
  /\ Tiered
  /\ fnInput.analysisMode = "fast"
  /\ TextLen(fnInput.jobDescription) = 9000
  /\ TotalChars(fnInput) = 18001
  /\ fnOutput = "COMPLEX"

(* C19: when no COMPLEX trigger applies, selectTier returns SIMPLE only if
   the job description and the resume are both shorter than 3000
   characters, in fast mode only if moreover the estimated tokens are
   under 3200, and MEDIUM in every other case; so an application that
   gets SIMPLE in fast mode gets SIMPLE in balanced mode. *)
C19_SimpleOnlyIfShort ==
  (Tiered /\ ~ComplexTrigger(fnInput)) =>
    LET short == /\ TextLen(fnInput.jobDescription) < 3000
                 /\ TextLen(fnInput.resumeContent) < 3000
                 /\ (fnInput.analysisMode = "fast" => EstimatedTokens(fnInput) < 3200)
    IN /\ fnOutput = IF short THEN "SIMPLE" ELSE "MEDIUM"
       /\ (fnInput.analysisMode = "fast" /\ fnOutput = "SIMPLE") =>
            selectTier([fnInput EXCEPT !.analysisMode = "balanced"]) = "SIMPLE"

(***************************************************************************)
(* computeAtsCoverage called on its own.                                   *)
(***************************************************************************)
MaxJdLines == 2

JdLines ==
  {Str(JdMustPython), Str(JdYears), Str(JdSqlPreferred), Str(JdHeading),
   Str("3 years")}

(* what the extract stage can have listed as skills *)
SkillLists ==
  {<< >>, <<(<<Str("python")>>)>>, <<(<<Str("6 years")>>)>>,
   <<(<<Str("3 years")>>)>>, <<(<<Str("must")>>), (<<Str("know")>>)>>,
   <<(<<Str("sql")>>), (<<Str("6 years")>>)>>}

CoverageInputs ==
  {[jobDescription |-> jd, resumeFacts |-> ResumeFacts(skills, << >>)] :
     jd \in TextsUpTo(JdLines, MaxJdLines), skills \in SkillLists}

ApplyComputeAtsCoverage ==
  Returns("computeAtsCoverage",
          computeAtsCoverage(fnInput.jobDescription, fnInput.resumeFacts))

Covered == fnApplied /\ fnName = "computeAtsCoverage"

(* the words of the resume facts *)
ResumeWords(resumeFacts) ==
  Range(tokenize(ChunksOf(JoinTexts(resumeFacts.skills \o resumeFacts.achievements))))

(* the three conditions under which a hard requirement counts as met *)
KeywordInRequirement(requirement, matched) ==
  \E k \in Range(matched) : \E w \in Range(tokenize(requirement)) : Includes(w, k)

TokensInResume(requirement, resumeFacts) ==
  LET tokens == significantTokens(requirement)
      found == {i \in 1..Len(tokens) : tokens[i] \in ResumeWords(resumeFacts)}
  IN Len(tokens) > 0 /\ 5 * Cardinality(found) >= 3 * Len(tokens)

(* the years that a text states, as a set; the number of years that a
   requirement states is the first that it states *)
StatedYears(text) == {YearMatches(text)[i] : i \in DOMAIN YearMatches(text)}

YearsInResume(requirement, resumeFacts) ==
  LET resume == ChunksOf(JoinTexts(resumeFacts.skills \o resumeFacts.achievements))
  IN /\ StatedYears(requirement) # {}
     /\ \E y \in StatedYears(resume) : y >= requiredYearsOf(requirement)

Unmet(requirement, inp, out) ==
  /\ ~KeywordInRequirement(requirement, out.keywordCoverage.matched)
  /\ ~TokensInResume(requirement, inp.resumeFacts)
  /\ ~YearsInResume(requirement, inp.resumeFacts)

(* C27: hardRequirementsMissing is the list of the parsed hard requirements,
   in their order and without duplicates, for which none of the three
   conditions holds: a matched keyword is part of the requirement, at
   least 60% of its significant tokens are words of the resume, the resume
   states at least the years that the requirement states.  A requirement
   that states years is missing when the resume states none and the other
   two conditions fail. *)
C27_MissingExactlyUnmet ==
  Covered =>
    LET hard == parseJdRequirements(fnInput.jobDescription).hardRequirements
        missing == fnOutput.hardRequirementsMissing
    IN /\ missing = SelectSeq(hard, LAMBDA r : Unmet(r, fnInput, fnOutput))
       /\ \A i, j \in 1..Len(missing) : missing[i] = missing[j] => i = j
       /\ \A r \in Range(hard) :
            (/\ StatedYears(r) # {}
             /\ ResumeWords(fnInput.resumeFacts) \cap {"3", "5", "6"} = {}
             /\ ~KeywordInRequirement(r, fnOutput.keywordCoverage.matched)
             /\ ~TokensInResume(r, fnInput.resumeFacts))
            => r \in Range(missing)

(* the job description is the line "3 years" and the line "must have 5
   years"; the resume states 3 years: the line that asks for 5 years is
   missing, the sentence of the two lines is met, 3 being the first number
   of years that it states *)
C27_Witness ==
  /\ Covered
  /\ fnInput.jobDescription = <<Str("3 years"), Str(JdYears)>>
  /\ StatedYears(ChunksOf(JoinTexts(fnInput.resumeFacts.skills))) = {3}
  /\ parseJdRequirements(fnInput.jobDescription).hardRequirements
       = <<(<<JdYears>>), <<"3 years", JdYears>>>>
  /\ fnOutput.hardRequirementsMissing = <<(<<JdYears>>)>>

(***************************************************************************)
(* chunkTextForRetrieval called on its own, one pass of its loop a step.   *)
(* fnOutput holds chunks, start and index of the call, and the passes made *)
(* so far; chunks is what the call returns.                                *)
(***************************************************************************)
(* configurations other than the default: maxChars below the minimum split
   point, overlap above maxChars, maxChars above the minimum split point *)
OddConfigurations == {<<1, 0>>, <<100, 170>>, <<250, 30>>}

(* an overlap that reaches back beyond the start of the chunk *)
WideOverlap == <<100, 300>>

ShortWords == [len : {1, 230}, dot : BOOLEAN]

RECURSIVE ShortTexts(_)
ShortTexts(n) ==
  IF n = 0 THEN {<< >>}
  ELSE ShortTexts(n - 1)
       \cup {t \o <<w>> : t \in {u \in ShortTexts(n - 1) : Len(u) = n - 1},
                          w \in ShortWords}

ChunkInput(text, maxChars, overlap) ==
  [source |-> "resumeContent", text |-> text, maxChars |-> maxChars,
   overlap |-> overlap]

ChunkInputs ==
  {ChunkInput(SpacedText(plain, spacing), DEFAULT_MAX_CHARS, DEFAULT_OVERLAP) :
     plain \in PlainTexts(MaxWords), spacing \in Spacings}
  \cup {ChunkInput(SpacedText(plain, [lead |-> 0, inner |-> 1, trail |-> 0]),
                   c[1], c[2]) :
          plain \in ShortTexts(MaxWords), c \in OddConfigurations}
  \cup {ChunkInput(SpacedText(<<[len |-> n, dot |-> FALSE]>>,
                              [lead |-> 0, inner |-> 1, trail |-> 0]),
                   WideOverlap[1], WideOverlap[2]) : n \in {230, 260}}

Chunking == fnName = "chunkTextForRetrieval"

(* chunkTextForRetrieval up to the loop: an empty text returns [] *)
EnterChunking ==
  /\ Chunking /\ ~fnApplied /\ fnOutput = << >>
  /\ fnOutput' = [chunks |-> << >>, start |-> 0, index |-> 0, passes |-> 0]
  /\ fnApplied' = (normalizeText(fnInput.text).words = << >>)
  /\ UNCHANGED <<fnName, fnInput, mainVars, twoVars>>

(* while (start < normalized.length): one pass, or the return of chunks *)
IterateChunking ==
  /\ Chunking /\ ~fnApplied /\ fnOutput # << >>
  /\ \E normalized \in {normalizeText(fnInput.text)} :
     \E it \in {Iteration(fnInput.source, normalized, fnOutput.start,
                          fnOutput.index, fnInput.maxChars, fnInput.overlap)} :
        IF fnOutput.start < TextLength(normalized)
        THEN /\ fnOutput' = [chunks |-> fnOutput.chunks \o it.pushed,
                             start |-> IF it.breaks THEN fnOutput.start
                                       ELSE it.nextStart,
                             index |-> fnOutput.index + Len(it.pushed),
                             passes |-> fnOutput.passes + 1]
             /\ fnApplied' = it.breaks
        ELSE /\ fnApplied' = TRUE
             /\ UNCHANGED fnOutput
  /\ UNCHANGED <<fnName, fnInput, mainVars, twoVars>>

Chunked == Chunking /\ fnApplied

(* C28: with window 900 and overlap 140 the chunks of a text begin at 0 and
   end at the length of the normalized text; every chunk but the last
   spans at least 220 and at most 900 characters; every chunk after the
   first starts 140 characters before the end of the one before it, so
   that every character lies in a chunk; the indexes in the ids count
   0, 1, 2, ... *)
C28_DefaultChunks ==
  (Chunked /\ fnInput.maxChars = 900 /\ fnInput.overlap = 140) =>
    LET chunks == fnOutput.chunks
        n == Len(chunks)
        length == TextLength(normalizeText(fnInput.text))
    IN /\ length > 0 => n > 0
       /\ n > 0 => chunks[1].start = 0 /\ chunks[n].end = length
       /\ \A i \in 1..(n - 1) :
            /\ chunks[i].end - chunks[i].start >= 220
            /\ chunks[i].end - chunks[i].start <= 900
            /\ chunks[i + 1].start = chunks[i].end - 140
       /\ \A c \in 0..(length - 1) :
            \E i \in 1..n : chunks[i].start <= c /\ c < chunks[i].end
       /\ \A i \in 1..n :
            /\ chunks[i].id.index = i - 1
            /\ chunks[i].id.start = chunks[i].start
            /\ chunks[i].id.end = chunks[i].end

(* a text of three chunks: the first ends behind a full stop, before the
   window is full, the second fills the window *)
C28_Witness ==
  /\ Chunked /\ fnInput.maxChars = 900 /\ fnInput.overlap = 140
  /\ Len(fnOutput.chunks) = 3 /\ fnInput.text.words[1].dot
  /\ fnOutput.chunks[1].end - fnOutput.chunks[1].start < 900
  /\ fnOutput.chunks[2].end - fnOutput.chunks[2].start = 900

(* C30: chunkTextForRetrieval returns for every text and every maxChars >= 1
   and overlap >= 0, overlap at or above maxChars and maxChars below the
   minimum split point among them: from one pass of the loop to the next
   start grows, and neither the passes nor the chunks are more than the
   characters of the normalized text. *)
C30_ChunkingEnds ==
  /\ Chunking ~> fnApplied
  /\ [][(Chunking /\ fnOutput # << >> /\ ~fnApplied') =>
          fnOutput'.start > fnOutput.start]_vars
  /\ []((Chunking /\ fnOutput # << >>) =>
          /\ fnOutput.passes <= TextLength(normalizeText(fnInput.text))
          /\ Len(fnOutput.chunks) <= TextLength(normalizeText(fnInput.text))
          /\ Len(fnOutput.chunks) = fnOutput.passes)

(* a call returned with an overlap above maxChars after forty passes, each
   a character further than the one before *)
C30_Witness ==
  /\ Chunked /\ fnInput.overlap >= fnInput.maxChars
  /\ fnInput.maxChars < MIN_SPLIT_POINT
  /\ fnOutput.passes > 40
  /\ fnOutput.start = fnOutput.passes - 1

(***************************************************************************)
(* selectRetrievalChunks called on its own.                                *)
(***************************************************************************)
(* applications and limits: among the job descriptions one of 40
   characters, whose only chunk gets the smallest length bonus *)
SelectionInputs ==
  {[input |-> RetrievalInput(jd, resume, [lead |-> 0, inner |-> 1, trail |-> 0]),
    limit |-> limit] :
     jd \in PlainTexts(MaxWords) \cup {<<[len |-> 40, dot |-> FALSE]>>},
     resume \in {<< >>, <<[len |-> 900, dot |-> FALSE]>>,
                 <<[len |-> 400, dot |-> TRUE], [len |-> 900, dot |-> FALSE]>>},
     limit \in {0, 1, 3, 8}}

ApplySelectRetrievalChunks ==
  Returns("selectRetrievalChunks",
          selectRetrievalChunks(fnInput.input, fnInput.limit))

ChunksSelected == fnApplied /\ fnName = "selectRetrievalChunks"

(* the sources from the highest priority to the lowest *)
ByPriority ==
  <<"jobDescription", "resumeContent", "coverLetterContent", "companyInfo",
    "additionalContext">>

(* source a has a higher priority than source b *)
Outranks(a, b) ==
  \E i, j \in 1..Len(ByPriority) : i < j /\ ByPriority[i] = a /\ ByPriority[j] = b

(* C29: in the list that selectRetrievalChunks returns no chunk stands
   before a chunk of a source of higher priority, whatever the lengths of
   the two; a chunk is in the list only if every chunk of every source of
   higher priority is; the list holds min(limit, number of chunks) chunks,
   each a chunk of the application and none twice. *)
C29_PriorityFirst ==
  ChunksSelected =>
    LET all == buildRetrievalChunks(fnInput.input)
        n == Len(fnOutput)
    IN /\ \A i, j \in 1..n :
            Outranks(fnOutput[j].source, fnOutput[i].source) => j < i
       /\ \A c \in Range(fnOutput) : \A d \in Range(all) :
            Outranks(d.source, c.source) => d \in Range(fnOutput)
       /\ n = IF fnInput.limit < Len(all) THEN fnInput.limit ELSE Len(all)
       /\ Range(fnOutput) \subseteq Range(all)
       /\ \A i, j \in 1..n : fnOutput[i] = fnOutput[j] => i = j

(* three of more than three chunks were selected: the chunk of a job
   description of 40 characters, with 10 estimated tokens, stands before a
   chunk of the resume with more than 200 *)
C29_Witness ==
  /\ ChunksSelected /\ fnInput.limit = 3
  /\ Len(buildRetrievalChunks(fnInput.input)) > 3
  /\ fnOutput[1].source = "jobDescription" /\ fnOutput[1].tokenEstimate = 10
  /\ fnOutput[2].source = "resumeContent" /\ fnOutput[2].tokenEstimate > 200
  /\ fnOutput[3].source = "resumeContent"

InitFn ==
  /\ NoRun
  /\ NoOtherRun
  /\ fnApplied = FALSE /\ fnOutput = << >>
  /\ \/ fnName = "prepareApplicationForGemini" /\ fnInput \in PrivateInputs
     \/ fnName = "selectRetrievalChunkIds" /\ fnInput \in RetrievalInputs
     \/ fnName = "findUnauthorizedNumbersForRewrite" /\ fnInput \in GuardInputs
     \/ fnName = "validateAnalysisResultSchema" /\ fnInput \in SchemaInputs
     \/ fnName = "selectTier" /\ fnInput \in TierInputs
     \/ fnName = "computeAtsCoverage" /\ fnInput \in CoverageInputs
     \/ fnName = "chunkTextForRetrieval" /\ fnInput \in ChunkInputs
     \/ fnName = "selectRetrievalChunks" /\ fnInput \in SelectionInputs

NextFn ==
  \/ ApplyPrepare
  \/ ApplySelectRetrievalChunkIds
  \/ ApplyFindUnauthorizedNumbers
  \/ ApplyValidateSchema
  \/ ApplySelectTier
  \/ ApplyComputeAtsCoverage
  \/ EnterChunking
  \/ IterateChunking
  \/ ApplySelectRetrievalChunks

SpecFn == InitFn /\ [][NextFn]_vars

(* the calls of the functions under the proviso that the loop of
   chunkTextForRetrieval goes on while it can: nothing but its own test
   and its break ends it *)
SpecFnLive == SpecFn /\ WF_vars(EnterChunking) /\ WF_vars(IterateChunking)

(***************************************************************************)
(* Two runs of analyzeApplication in one process.  The variables of a run  *)
(* hold the run that steps; the other run is suspended at its await, in    *)
(* other.  A step is the code of a run between two suspension points, and  *)
(* between two steps the event loop may resume either run.  Everything a   *)
(* run keeps is local to its call: nothing but the environment is shared.  *)
(***************************************************************************)
(* the locals of the run that steps *)
RunState ==
  [entry |-> entry, data |-> data, runtimeOptions |-> runtimeOptions, pc |-> pc,
   client |-> client, sanitizedInput |-> sanitizedInput,
   redactionEntries |-> redactionEntries, tierConfig |-> tierConfig,
   call |-> call, attempt |-> attempt, caught |-> caught,
   retryCount |-> retryCount, firstDraft |-> firstDraft, events |-> events,
   callInvocations |-> callInvocations, generatorCalls |-> generatorCalls,
   request |-> request, inFlight |-> inFlight, settled |-> settled,
   draftsReceived |-> draftsReceived, sleeps |-> sleeps, result |-> result,
   error |-> error, extracted |-> extracted, scored |-> scored,
   validation |-> validation]

(* a run of analyzeApplication before its call *)
IdleRun(input, options) ==
  [entry |-> "analyzeApplication", data |-> input, runtimeOptions |-> options,
   pc |-> "Idle", client |-> "none", sanitizedInput |-> input,
   redactionEntries |-> << >>, tierConfig |-> [tier |-> "", model |-> ""],
   call |-> NoCall, attempt |-> 0, caught |-> NoGeneratorError,
   retryCount |-> 0, firstDraft |-> NoDraft, events |-> << >>,
   callInvocations |-> 0, generatorCalls |-> 0, request |-> NoRequest,
   inFlight |-> 0, settled |-> NotSettled, draftsReceived |-> 0, sleeps |-> 0,
   result |-> NoResult, error |-> NoError, extracted |-> NoExtracted,
   scored |-> NoScored, validation |-> NoValidation]

(* the run r goes on, with count as its retryCount *)
Resume(r, count) ==
  /\ entry' = r.entry /\ data' = r.data /\ runtimeOptions' = r.runtimeOptions
  /\ pc' = r.pc /\ client' = r.client /\ sanitizedInput' = r.sanitizedInput
  /\ redactionEntries' = r.redactionEntries /\ tierConfig' = r.tierConfig
  /\ call' = r.call /\ attempt' = r.attempt /\ caught' = r.caught
  /\ retryCount' = count
  /\ firstDraft' = r.firstDraft /\ events' = r.events
  /\ callInvocations' = r.callInvocations /\ generatorCalls' = r.generatorCalls
  /\ request' = r.request /\ inFlight' = r.inFlight /\ settled' = r.settled
  /\ draftsReceived' = r.draftsReceived /\ sleeps' = r.sleeps
  /\ result' = r.result /\ error' = r.error /\ extracted' = r.extracted
  /\ scored' = r.scored /\ validation' = r.validation

(* a slip: retryCount is a variable of the module, shared by the runs *)
Switch_SharedRetryCount ==
  /\ other' = RunState
  /\ Resume(other, retryCount)
  /\ active' = 3 - active
  /\ UNCHANGED <<fnVars, scenario, envKey>>

(* the run that steps is suspended at its await and the other run goes on *)
Switch ==
  /\ other' = RunState
  /\ Resume(other, other.retryCount)
  /\ active' = 3 - active
  /\ UNCHANGED <<fnVars, scenario, envKey>>

(* the applications of the two runs: the second holds an email of the
   first, met after another one *)
FirstApplication ==
  Input(<<Str(Word)>>, <<Str(EmailA), Str(PhoneA)>>, << >>, "balanced", TRUE,
        Vault("usersServed", <<Num("1")>>))

SecondApplication ==
  Input(<<Str(Word)>>, <<Str(EmailZ), Str(EmailA)>>, << >>, "balanced", TRUE,
        Vault("projectImpact", <<Num("18")>>))

InitTwo ==
  /\ scenario = "two" /\ envKey = ""
  /\ NoFunction
  /\ entry = "analyzeApplication" /\ data = FirstApplication
  /\ runtimeOptions = [modelMode |-> "real", apiKey |-> "k"]
  /\ BeforeCall
  /\ other = IdleRun(SecondApplication, [modelMode |-> "real", apiKey |-> "k"])
  /\ active = 1

NextTwo ==
  \/ CallWithPreparation
  \/ \E e \in GeneratorErrors : GeneratorThrows(e)
  \/ BackoffEnds
  \/ GeneratorReturns
  \/ Switch

SpecTwo == InitTwo /\ [][NextTwo]_vars

(* the run i, whether it steps or is suspended *)
Run(i) == IF active = i THEN RunState ELSE other

(* what the run r prepared is what prepareApplicationForGemini makes of
   its own application, numbered from 1 *)
OwnPreparation(r) ==
  r.pc # "Idle" =>
    /\ r.redactionEntries = prepareApplicationForGemini(r.data).redactionEntries
    /\ r.sanitizedInput = prepareApplicationForGemini(r.data).sanitizedInput

(* the retries that the run r returned are those of its own generator
   invocations: its backoff sleeps and its correction call *)
OwnRetries(r) ==
  r.pc = "Done" =>
    /\ r.result.retries = r.generatorCalls - 3
    /\ r.result.retries =
         r.sleeps + Cardinality({i \in 1..Len(r.events) : r.events[i].prompt.correction})
    /\ r.result.tier = r.tierConfig.tier

(* C20: when two runs of analyzeApplication are interleaved at their
   suspension points, a step of one run changes nothing of the other; the
   retries each run returns count its own retries and correction only;
   the redaction entries and placeholders of each run are those of its
   own application. *)
C20_RunsIsolated ==
  /\ [](active \in {1, 2} => \A i \in {1, 2} : OwnPreparation(Run(i)) /\ OwnRetries(Run(i)))
  /\ [][/\ active' = active => other' = other
        /\ active' # active => other' = RunState /\ RunState' = other]_vars

(* both runs returned, one after a retry and a correction, the other with
   no retry, and with different placeholders for the same email *)
C20_Witness ==
  /\ scenario = "two"
  /\ Run(1).pc = "Done" /\ Run(2).pc = "Done"
  /\ Run(1).result.retries = 2 /\ Run(1).sleeps = 1
  /\ Run(2).result.retries = 0
  /\ \E e \in Range(Run(1).redactionEntries) :
       e.original = EmailA /\ e.placeholder = Ph("EMAIL", 1)
  /\ \E e \in Range(Run(2).redactionEntries) :
       e.original = EmailA /\ e.placeholder = Ph("EMAIL", 2)

====
